---- MODULE Spec2Model ----
(***************************************************************************)
(* Model of the phoenix-waterfall streaming pipeline (src/src/waterfall.c):*)
(* the PHXI/IQDQ protocol session, the main loop that drives it, the       *)
(* decimate-and-accumulate ingestion path and the discovery handoff.       *)
(*                                                                         *)
(* The main loop is modelled phase by phase (pc): "discover" (lines        *)
(* 773-797, itself in four steps because it reads memory the discovery     *)
(* thread writes), "reconnect" (799-810), "events" (812-905), "recv"       *)
(* (907-1006) and "render" (1008-1097).  The discovery callback runs on    *)
(* its own thread, one store at a time; time (SDL_GetTicks) may advance    *)
(* between any two steps.                                                  *)
(***************************************************************************)
EXTENDS Integers, Sequences, FiniteSets, TLC

(***************************************************************************)
(* Program constants                                                       *)
(***************************************************************************)
MAGIC_PHXI == 1346918473
MAGIC_IQDQ == 1230062673
MAGIC_META == 1296389185

SAMPLE_FORMAT_S16 == 1
SAMPLE_FORMAT_F32 == 2
SAMPLE_FORMAT_U8 == 3

DISPLAY_SAMPLE_RATE == 12000
RECONNECT_INTERVAL_MS == 5000
SOCKET_INVALID == -1

\* sizeof(phxi_stream_header_t), sizeof(iqdq_data_frame_t), sizeof(meta_update_t)
PHXI_HEADER_BYTES == 32
IQDQ_HEADER_BYTES == 16
META_FRAME_BYTES == 32

\* SO_RCVTIMEO values set by connect_to_relay, in milliseconds
CONNECT_TIMEOUT_MS == 5000
POLL_TIMEOUT_MS == 100

RECV_OK == "RECV_OK"
RECV_TIMEOUT == "RECV_TIMEOUT"
RECV_ERROR == "RECV_ERROR"

(***************************************************************************)
(* Bounds of the model                                                     *)
(***************************************************************************)
\* Sequence numbers are uint32_t in the code; the model keeps the modular
\* arithmetic with a small modulus standing in for 2^32.
SeqMod == 3
\* Length of the circular I/Q buffer (DISPLAY_FFT_SIZE, 2048 in the code);
\* DISPLAY_OVERLAP is half of it, as in the code (1024).
FftSize == 4
\* Largest num_samples a data frame of the model carries.
MaxSamples == 2
\* num_samples is uint32_t and the byte counts are int in the code; the model
\* keeps the wrap-around with IntBits bits standing in for 32.
IntBits == 6
IntMod == 2 ^ IntBits
\* SDL_GetTicks advances in steps of TickMs; the model keeps the clock within
\* MaxTicks steps by moving the origin of time (the code reads only the
\* difference between the clock and g_last_reconnect_time).
MaxTicks == 2
TickMs == RECONNECT_INTERVAL_MS \div 2

\* Canvas width and height in pixels (the window is at least 400 x 300).
CanvasWidth == 2
CanvasHeight == 2
\* The status square is 12 x 12 pixels, 5 pixels from the top and from the
\* right edge of a window of at least 400 x 300; on the model's canvas it is
\* StatusSize pixels wide and high, StatusMargin pixels from both edges.
StatusSize == 1
StatusMargin == 1
\* The user widens the window by up to MaxWiden pixels.
MaxWiden == 3

DISPLAY_FFT_SIZE == FftSize
DISPLAY_OVERLAP == FftSize \div 2
MaxNow == MaxTicks * TickMs

\* A value of the 32-bit sequence field that is not one of the two known
\* frame magics, and a stream-header magic that is not MAGIC_PHXI.
MAGIC_OTHER == MAGIC_PHXI + 1

(***************************************************************************)
(* Inputs                                                                  *)
(***************************************************************************)
\* The first four fields of phxi_stream_header_t; version is 1.
Header(magic, rate, fmt) ==
    [magic |-> magic, version |-> 1, sample_rate |-> rate, sample_format |-> fmt]
\* Stream headers: each known format code and one unknown code (0), at the
\* display rate and at twice the display rate, and a header with a bad magic.
StreamHeaders ==
    {Header(MAGIC_PHXI, DISPLAY_SAMPLE_RATE, SAMPLE_FORMAT_F32),
     Header(MAGIC_PHXI, 2 * DISPLAY_SAMPLE_RATE, SAMPLE_FORMAT_S16),
     Header(MAGIC_PHXI, 2 * DISPLAY_SAMPLE_RATE, SAMPLE_FORMAT_U8),
     Header(MAGIC_PHXI, DISPLAY_SAMPLE_RATE, 0),
     Header(MAGIC_OTHER, 2 * DISPLAY_SAMPLE_RATE, SAMPLE_FORMAT_S16)}
\* The headers of the session specification: one good, one with a bad magic.
SessionHeaders ==
    {Header(MAGIC_PHXI, 2 * DISPLAY_SAMPLE_RATE, SAMPLE_FORMAT_S16),
     Header(MAGIC_OTHER, DISPLAY_SAMPLE_RATE, SAMPLE_FORMAT_U8)}
FrameHeaders ==
    [magic : {MAGIC_IQDQ, MAGIC_META, MAGIC_OTHER}, sequence : 0 .. SeqMod - 1,
     num_samples : 0 .. MaxSamples]
\* Normalised sample values, in units of 1/32768 of full scale.
FULL_SCALE == 32768
FloatVals == {16384}
\* The last 16 bytes of a metadata frame (meta_update_t after its sequence
\* field): centre frequency in Hz, gain reduction in 0.1 dB, LNA state.
MetaBodies ==
    {[center_freq |-> 7000000, gain_reduction |-> 250, lna_state |-> 1],
     [center_freq |-> 14000000, gain_reduction |-> 0, lna_state |-> 0]}
\* A host string is kept as its front and back halves, so that a copy which
\* is not atomic (strncpy) can be seen half done.  The empty string is <<"", "">>.
EmptyHost == <<"", "">>
DEFAULT_RELAY_HOST == <<"local", "host">>
DEFAULT_RELAY_PORT == 4536

(***************************************************************************)
(* tcp_recv_exact: the outcomes of reading n bytes.  got is the number of  *)
(* bytes taken off the stream before the call returned.                    *)
(***************************************************************************)
RecvSplits(n) == {k \in {0, n \div 2} : k < n}

tcp_recv_exact(n) ==
    IF n <= 0 THEN {[res |-> RECV_OK, got |-> 0]}
    ELSE {[res |-> RECV_OK, got |-> n]}
         \cup [res : {RECV_TIMEOUT, RECV_ERROR}, got : RecvSplits(n)]

(***************************************************************************)
(* Decimator (pn_dsp library; modelled as a boxcar accumulator that emits  *)
(* the mean of every `factor` consecutive inputs).                         *)
(***************************************************************************)
DecimatorZero == [factor |-> 0, count |-> 0, acc |-> 0]

pn_decimate_init(factor) == [factor |-> factor, count |-> 0, acc |-> 0]

\* [st |-> new state, ready |-> output produced, out |-> the output]
pn_decimate_process(d, x) ==
    IF d.count + 1 >= d.factor
    THEN [st |-> [d EXCEPT !.count = 0, !.acc = 0], ready |-> TRUE,
          out |-> (d.acc + x) \div (IF d.factor < 1 THEN 1 ELSE d.factor)]
    ELSE [st |-> [d EXCEPT !.count = @ + 1, !.acc = @ + x], ready |-> FALSE,
          out |-> 0]

(***************************************************************************)
(* Connection management.  A session record s holds the connection globals *)
(* and the process's open descriptors:                                     *)
(*   socket, connected, sample_rate, sample_format, last_sequence, dec_i,  *)
(*   dec_q, last_reconnect_time  -- g_socket, g_connected, ...             *)
(*   stamped   -- g_last_reconnect_time has been assigned since startup    *)
(*   open      -- the descriptors the process holds open                   *)
(*   rcvtimeo  -- SO_RCVTIMEO of g_socket (0 when there is none)           *)
(***************************************************************************)
\* socket(): the lowest descriptor not in use
NewSocket(open) == CHOOSE fd \in 0 .. Cardinality(open) : fd \notin open

socket_close(s) ==
    [s EXCEPT !.open = @ \ {s.socket}, !.socket = SOCKET_INVALID, !.rcvtimeo = 0]

\* Mutant: marks the session disconnected without closing the socket.
disconnect_from_relay_leak(s, t) ==
    [s EXCEPT !.connected = FALSE, !.last_reconnect_time = t, !.stamped = TRUE]

\* Mutant: closes the socket without recording the disconnect time.
disconnect_from_relay_nostamp(s, t) ==
    [(IF s.socket # SOCKET_INVALID THEN socket_close(s) ELSE s)
        EXCEPT !.connected = FALSE]

disconnect_from_relay(s, t) ==
    [(IF s.socket # SOCKET_INVALID THEN socket_close(s) ELSE s)
        EXCEPT !.connected = FALSE, !.last_reconnect_time = t, !.stamped = TRUE]

\* Mutant: the factor is not raised to 1.
DecimationFactor_unclamped(rate) == rate \div DISPLAY_SAMPLE_RATE

DecimationFactor(rate) ==
    IF rate \div DISPLAY_SAMPLE_RATE < 1 THEN 1 ELSE rate \div DISPLAY_SAMPLE_RATE

\* What the network does during one connect_to_relay call: whether
\* tcp_connect succeeds, how the 32-byte header read ends, the header as
\* the code sees it, and `over`: how many of the 32 bytes read lie beyond
\* the peer's own stream header (0 for a peer that sends a 32-byte header).
ConnectOutcomes(headers) ==
    LET ok == [res |-> RECV_OK, got |-> PHXI_HEADER_BYTES]
        h0 == Header(MAGIC_OTHER, 0, 0)
    IN  {[tcp |-> FALSE, rcv |-> ok, header |-> h0, over |-> 0]}
        \cup {[tcp |-> TRUE, rcv |-> r, header |-> h0, over |-> 0] :
                 r \in tcp_recv_exact(PHXI_HEADER_BYTES) \ {ok}}
        \cup {[tcp |-> TRUE, rcv |-> ok, header |-> h, over |-> 0] : h \in headers}

\* A peer of the other protocol variant sends a 16-byte stream header
\* (magic, sample_rate, two reserved words) and then data frames.  The
\* 32-byte read of connect_to_relay takes that header and the 16-byte header
\* of the first data frame; laid over phxi_stream_header_t, the announced
\* rate lands in `version` and the reserved words in sample_rate and
\* sample_format.  The variant's magic may or may not equal MAGIC_PHXI.
VariantBHeader(magic) ==
    [magic |-> magic, version |-> DISPLAY_SAMPLE_RATE, sample_rate |-> 0,
     sample_format |-> 0]
VariantBOutcomes ==
    {[tcp |-> TRUE, rcv |-> [res |-> RECV_OK, got |-> PHXI_HEADER_BYTES],
      header |-> VariantBHeader(m), over |-> IQDQ_HEADER_BYTES] :
        m \in {MAGIC_PHXI, MAGIC_OTHER}}

\* Mutant: adopts the header's stream parameters before validating its magic.
connect_to_relay_early(s, t, net) ==
    IF s.connected THEN s
    ELSE IF ~net.tcp
    THEN [s EXCEPT !.socket = SOCKET_INVALID, !.last_reconnect_time = t, !.stamped = TRUE]
    ELSE LET o == [s EXCEPT !.socket = NewSocket(s.open),
                            !.open = @ \cup {NewSocket(s.open)},
                            !.rcvtimeo = CONNECT_TIMEOUT_MS]
         IN  IF net.rcv.res # RECV_OK
             THEN [socket_close(o) EXCEPT !.last_reconnect_time = t, !.stamped = TRUE]
             ELSE IF net.header.magic # MAGIC_PHXI
             THEN [socket_close(o) EXCEPT !.last_reconnect_time = t, !.stamped = TRUE,
                                          !.sample_rate = net.header.sample_rate,
                                          !.sample_format = net.header.sample_format]
             ELSE [o EXCEPT !.sample_rate = net.header.sample_rate,
                            !.sample_format = net.header.sample_format,
                            !.last_sequence = 0,
                            !.dec_i = pn_decimate_init(DecimationFactor(net.header.sample_rate)),
                            !.dec_q = pn_decimate_init(DecimationFactor(net.header.sample_rate)),
                            !.rcvtimeo = POLL_TIMEOUT_MS,
                            !.connected = TRUE]

\* Mutant: keeps the previous session's sequence tracker on a new session.
connect_to_relay_keepseq(s, t, net) ==
    IF s.connected THEN s
    ELSE IF ~net.tcp
    THEN [s EXCEPT !.socket = SOCKET_INVALID, !.last_reconnect_time = t, !.stamped = TRUE]
    ELSE LET o == [s EXCEPT !.socket = NewSocket(s.open),
                            !.open = @ \cup {NewSocket(s.open)},
                            !.rcvtimeo = CONNECT_TIMEOUT_MS]
         IN  IF net.rcv.res # RECV_OK
             THEN [socket_close(o) EXCEPT !.last_reconnect_time = t, !.stamped = TRUE]
             ELSE IF net.header.magic # MAGIC_PHXI
             THEN [socket_close(o) EXCEPT !.last_reconnect_time = t, !.stamped = TRUE]
             ELSE [o EXCEPT !.sample_rate = net.header.sample_rate,
                            !.sample_format = net.header.sample_format,
                            !.dec_i = pn_decimate_init(DecimationFactor(net.header.sample_rate)),
                            !.dec_q = pn_decimate_init(DecimationFactor(net.header.sample_rate)),
                            !.rcvtimeo = POLL_TIMEOUT_MS,
                            !.connected = TRUE]

\* Mutant: connects without looking at g_connected.
connect_to_relay_unguarded(s, t, net) ==
    IF ~net.tcp
    THEN [s EXCEPT !.socket = SOCKET_INVALID, !.last_reconnect_time = t, !.stamped = TRUE]
    ELSE LET o == [s EXCEPT !.socket = NewSocket(s.open),
                            !.open = @ \cup {NewSocket(s.open)},
                            !.rcvtimeo = CONNECT_TIMEOUT_MS]
         IN  IF net.rcv.res # RECV_OK
             THEN [socket_close(o) EXCEPT !.last_reconnect_time = t, !.stamped = TRUE]
             ELSE IF net.header.magic # MAGIC_PHXI
             THEN [socket_close(o) EXCEPT !.last_reconnect_time = t, !.stamped = TRUE]
             ELSE [o EXCEPT !.sample_rate = net.header.sample_rate,
                            !.sample_format = net.header.sample_format,
                            !.last_sequence = 0,
                            !.dec_i = pn_decimate_init(DecimationFactor(net.header.sample_rate)),
                            !.dec_q = pn_decimate_init(DecimationFactor(net.header.sample_rate)),
                            !.rcvtimeo = POLL_TIMEOUT_MS,
                            !.connected = TRUE]

connect_to_relay(s, t, net) ==
    IF s.connected THEN s
    ELSE IF ~net.tcp
    THEN [s EXCEPT !.socket = SOCKET_INVALID, !.last_reconnect_time = t, !.stamped = TRUE]
    ELSE LET o == [s EXCEPT !.socket = NewSocket(s.open),
                            !.open = @ \cup {NewSocket(s.open)},
                            !.rcvtimeo = CONNECT_TIMEOUT_MS]
         IN  IF net.rcv.res # RECV_OK
             THEN [socket_close(o) EXCEPT !.last_reconnect_time = t, !.stamped = TRUE]
             ELSE IF net.header.magic # MAGIC_PHXI
             THEN [socket_close(o) EXCEPT !.last_reconnect_time = t, !.stamped = TRUE]
             ELSE [o EXCEPT !.sample_rate = net.header.sample_rate,
                            !.sample_format = net.header.sample_format,
                            !.last_sequence = 0,
                            !.dec_i = pn_decimate_init(DecimationFactor(net.header.sample_rate)),
                            !.dec_q = pn_decimate_init(DecimationFactor(net.header.sample_rate)),
                            !.rcvtimeo = POLL_TIMEOUT_MS,
                            !.connected = TRUE]

\* What connect_to_relay returns.
connect_to_relay_result(s, net) ==
    \/ s.connected
    \/ net.tcp /\ net.rcv.res = RECV_OK /\ net.header.magic = MAGIC_PHXI


(***************************************************************************)
(* Sample codec (pn_dsp library) and the decimate-and-accumulate loop.     *)
(* Float samples are integers in units of 1/FULL_SCALE.                    *)
(***************************************************************************)
pn_s16_to_float(raw) == raw
pn_u8_to_float(raw) == (raw - 128) * (FULL_SCALE \div 128)

BytesPerSample(fmt) ==
    IF fmt = SAMPLE_FORMAT_S16 THEN 2 ELSE IF fmt = SAMPLE_FORMAT_F32 THEN 4 ELSE 1

\* The payload of a data frame on the wire, in bytes.
PayloadBytes(num_samples, fmt) == num_samples * 2 * BytesPerSample(fmt)

\* An unsigned product stored into an int: reduced modulo 2^32 and read as a
\* two's-complement number.
ToInt(u) ==
    IF (u % IntMod) >= IntMod \div 2 THEN (u % IntMod) - IntMod ELSE u % IntMod

\* int data_bytes = frame.num_samples * 2 * bytes_per_sample
DataBytes(num_samples, fmt) == ToInt(num_samples * 2 * BytesPerSample(fmt))

\* Wire values of one I or Q component, per format; each decodes to 0.5.
RawVals(fmt) ==
    IF fmt = SAMPLE_FORMAT_S16 THEN {16384}
    ELSE IF fmt = SAMPLE_FORMAT_U8 THEN {192}
    ELSE FloatVals

Payloads(fmt, n) == [1 .. n -> [i : RawVals(fmt), q : RawVals(fmt)]]

\* The floats a wire value may become in sample_buffer.  With an unknown
\* format code the code reads 1 byte per component and then copies 4 bytes
\* per component out of the raw buffer: the floats are whatever lies there.
ToFloats(fmt, raw) ==
    IF fmt = SAMPLE_FORMAT_S16 THEN {pn_s16_to_float(raw)}
    ELSE IF fmt = SAMPLE_FORMAT_U8 THEN {pn_u8_to_float(raw)}
    ELSE IF fmt = SAMPLE_FORMAT_F32 THEN {raw}
    ELSE FloatVals

\* The sample_buffer contents a payload may convert to.
SampleBuffers(fmt, payload) ==
    {fb \in [DOMAIN payload -> [i : FloatVals, q : FloatVals]] :
        \A k \in DOMAIN payload :
            /\ fb[k].i \in ToFloats(fmt, payload[k].i)
            /\ fb[k].q \in ToFloats(fmt, payload[k].q)}

\* The two staging buffers, each with its recorded size: g_raw_buffer with
\* g_raw_buffer_size, sample_buffer with sample_buffer_size.  Both start
\* NULL with size 0.
NullBuffer == [null |-> TRUE, size |-> 0]
\* int float_bytes = frame.num_samples * 2 * sizeof(float)
FloatBytes(num_samples) == ToInt(num_samples * 2 * 4)

\* if (need > size) { buf = realloc(buf, need); size = need; } -- ok says
\* whether realloc returned memory
GrowBuffer(buf, need, ok) ==
    IF need > buf.size THEN [null |-> ~ok, size |-> need] ELSE buf

IqZero == [i |-> 0, q |-> 0]

\* An ingestion state b: buffer, idx, new (g_iq_buffer, g_iq_buffer_idx,
\* g_new_samples), the two decimators dec_i, dec_q, and order: the slots of
\* the last DISPLAY_FFT_SIZE stores into the buffer, oldest first.
Stored(order, slot) ==
    IF Len(order) < DISPLAY_FFT_SIZE THEN Append(order, slot)
    ELSE Append(Tail(order), slot)

\* Mutant: stores the decimated pair without counting it as a new sample.
IngestOne_nocount(b, smp) ==
    LET ri == pn_decimate_process(b.dec_i, smp.i)
        rq == pn_decimate_process(b.dec_q, smp.q)
    IN  IF ri.ready /\ rq.ready
        THEN [buffer |-> [b.buffer EXCEPT ![b.idx] = [i |-> ri.out, q |-> rq.out]],
              idx |-> (b.idx + 1) % DISPLAY_FFT_SIZE,
              new |-> b.new,
              dec_i |-> ri.st, dec_q |-> rq.st,
              order |-> Stored(b.order, b.idx)]
        ELSE [b EXCEPT !.dec_i = ri.st, !.dec_q = rq.st]

\* Mutant: advances the write index without wrapping it.
IngestOne_nowrap(b, smp) ==
    LET ri == pn_decimate_process(b.dec_i, smp.i)
        rq == pn_decimate_process(b.dec_q, smp.q)
    IN  IF ri.ready /\ rq.ready
        THEN [buffer |-> [b.buffer EXCEPT ![b.idx] = [i |-> ri.out, q |-> rq.out]],
              idx |-> b.idx + 1,
              new |-> b.new + 1,
              dec_i |-> ri.st, dec_q |-> rq.st,
              order |-> Stored(b.order, b.idx)]
        ELSE [b EXCEPT !.dec_i = ri.st, !.dec_q = rq.st]

\* Mutant: the Q decimator is given the sample only when the I decimator has
\* produced an output.
IngestOne_shortcircuit(b, smp) ==
    LET ri == pn_decimate_process(b.dec_i, smp.i)
        rq == pn_decimate_process(b.dec_q, smp.q)
    IN  IF ri.ready /\ rq.ready
        THEN [buffer |-> [b.buffer EXCEPT ![b.idx] = [i |-> ri.out, q |-> rq.out]],
              idx |-> (b.idx + 1) % DISPLAY_FFT_SIZE,
              new |-> b.new + 1,
              dec_i |-> ri.st, dec_q |-> rq.st,
              order |-> Stored(b.order, b.idx)]
        ELSE [b EXCEPT !.dec_i = ri.st,
                       !.dec_q = IF ri.ready THEN rq.st ELSE b.dec_q]

IngestOne(b, smp) ==
    LET ri == pn_decimate_process(b.dec_i, smp.i)
        rq == pn_decimate_process(b.dec_q, smp.q)
    IN  IF ri.ready /\ rq.ready
        THEN [buffer |-> [b.buffer EXCEPT ![b.idx] = [i |-> ri.out, q |-> rq.out]],
              idx |-> (b.idx + 1) % DISPLAY_FFT_SIZE,
              new |-> b.new + 1,
              dec_i |-> ri.st, dec_q |-> rq.st,
              order |-> Stored(b.order, b.idx)]
        ELSE [b EXCEPT !.dec_i = ri.st, !.dec_q = rq.st]

RECURSIVE Ingest(_, _)
Ingest(b, samples) ==
    IF samples = << >> THEN b ELSE Ingest(IngestOne(b, Head(samples)), Tail(samples))

\* The sequence check of a data frame: the gap sizes it reports.
GapReport(last_sequence, sequence) ==
    IF last_sequence # 0 /\ sequence # (last_sequence + 1) % SeqMod
    THEN << (sequence + 2 * SeqMod - last_sequence - 1) % SeqMod >>
    ELSE << >>

(***************************************************************************)
(* Window and display buffers.  A display record d holds width, height     *)
(* (g_window_width, g_window_height), pixels (g_pixels: NullPixels, or     *)
(* pixels[y][x] an RGB triple, row 0 on top), magnitudes (g_magnitudes:    *)
(* whether it is NULL, and its number of entries) and rows: the colour     *)
(* rows drawn since g_pixels was allocated, newest first, as many as the   *)
(* canvas has rows at most.                                                *)
(***************************************************************************)
\* The smallest window, which is also the window the model starts with.
MIN_WINDOW_WIDTH == CanvasWidth
MIN_WINDOW_HEIGHT == CanvasHeight

Black == [r |-> 0, g |-> 0, b |-> 0]
NullPixels == << >>
NullMagnitudes == [null |-> TRUE, size |-> 0]

\* calloc(width * height * 3, 1)
Canvas(width, height) ==
    [y \in 0 .. height - 1 |-> [x \in 0 .. width - 1 |-> Black]]

\* resize_buffers with the window already at width x height.  pixels_ok
\* and mags_ok say whether calloc and malloc return memory; when calloc
\* fails the function returns before it touches g_magnitudes.
resize_buffers(d, pixels_ok, mags_ok) ==
    IF ~pixels_ok THEN [d EXCEPT !.pixels = NullPixels, !.rows = << >>]
    ELSE [d EXCEPT !.pixels = Canvas(d.width, d.height), !.rows = << >>,
                   !.magnitudes = IF mags_ok THEN [null |-> FALSE, size |-> d.width]
                                  ELSE NullMagnitudes]

\* case SDL_WINDOWEVENT_RESIZED, lines 824-836: rq is the size the event
\* carries and what the allocator does; the return value of resize_buffers
\* is not looked at.
WindowResized(d, rq) ==
    resize_buffers(
        [d EXCEPT !.width = IF rq.width < MIN_WINDOW_WIDTH THEN MIN_WINDOW_WIDTH
                            ELSE rq.width,
                  !.height = IF rq.height < MIN_WINDOW_HEIGHT THEN MIN_WINDOW_HEIGHT
                             ELSE rq.height],
        rq.pixels_ok, rq.mags_ok)

\* A resize event that keeps the window's size, with memory available.
SameSize ==
    {[width |-> CanvasWidth, height |-> CanvasHeight, pixels_ok |-> TRUE,
      mags_ok |-> TRUE]}

(***************************************************************************)
(* Settings-panel button and the SDL event switch of the main loop.        *)
(* The mouse position is kept as in_btn: whether it lies inside the        *)
(* Connect button's rectangle.  A ui record holds show_settings, running,  *)
(* mouse (in_btn, left_down, left_clicked, left_released), btn_pressed and *)
(* gain_offset (g_gain_offset).                                            *)
(***************************************************************************)
MouseZero ==
    [in_btn |-> FALSE, left_down |-> FALSE, left_clicked |-> FALSE,
     left_released |-> FALSE]

\* [pressed |-> btn->pressed afterwards, clicked |-> the return value]
widget_button_update(pressed, mouse) ==
    LET hovered == mouse.in_btn
        p1 == IF hovered /\ mouse.left_clicked THEN TRUE ELSE pressed
    IN  IF p1 /\ mouse.left_released /\ hovered
        THEN [pressed |-> FALSE, clicked |-> TRUE]
        ELSE [pressed |-> IF (p1 /\ mouse.left_released) \/ ~mouse.left_down
                          THEN FALSE ELSE p1,
              clicked |-> FALSE]

EventKinds ==
    {"quit", "tab", "escape", "q", "plus", "minus", "down", "up", "move_in", "move_out",
     "resize"}

\* Decibel values are integers in thousandths of a dB.
DB == 1000
GAIN_KEY_STEP == 3 * DB

\* The switch on event.type, lines 819-897.  A "resize" event
\* (SDL_WINDOWEVENT_RESIZED) changes no ui field; ProcessEvents applies it
\* to the display record.
HandleEvent(ui, e) ==
    IF e = "quit" THEN [ui EXCEPT !.running = FALSE]
    ELSE IF e = "move_in" THEN [ui EXCEPT !.mouse.in_btn = TRUE]
    ELSE IF e = "move_out" THEN [ui EXCEPT !.mouse.in_btn = FALSE]
    ELSE IF e = "down"
    THEN [ui EXCEPT !.mouse.left_down = TRUE, !.mouse.left_clicked = TRUE]
    ELSE IF e = "up"
    THEN [ui EXCEPT !.mouse.left_down = FALSE, !.mouse.left_released = TRUE]
    ELSE IF e = "escape"
    THEN IF ui.show_settings THEN [ui EXCEPT !.show_settings = FALSE]
         ELSE [ui EXCEPT !.running = FALSE]
    ELSE IF e = "q"
    THEN IF ~ui.show_settings THEN [ui EXCEPT !.running = FALSE] ELSE ui
    ELSE IF e = "tab" THEN [ui EXCEPT !.show_settings = ~@]
    ELSE IF e = "plus" THEN [ui EXCEPT !.gain_offset = @ + GAIN_KEY_STEP]
    ELSE IF e = "minus" THEN [ui EXCEPT !.gain_offset = @ - GAIN_KEY_STEP]
    ELSE ui

\* update_settings_panel on a state w = [s |-> session, ui |-> ui,
\* toggles |-> number of button clicks acted on so far,
\* d |-> display record, rq |-> what a resize event of this frame carries]
update_settings_panel(w, t, net) ==
    IF ~w.ui.show_settings THEN w
    ELSE LET b == widget_button_update(w.ui.btn_pressed, w.ui.mouse)
             u == [w.ui EXCEPT !.btn_pressed = b.pressed]
         IN  IF b.clicked
             THEN [w EXCEPT !.s = IF w.s.connected THEN disconnect_from_relay(w.s, t)
                                  ELSE connect_to_relay(w.s, t, net),
                            !.ui = u, !.toggles = @ + 1]
             ELSE [w EXCEPT !.ui = u]

\* The while (SDL_PollEvent(&event)) loop over one frame's events
RECURSIVE ProcessEvents(_, _, _, _)
ProcessEvents(w, batch, t, net) ==
    IF batch = << >> THEN w
    ELSE ProcessEvents(
             update_settings_panel(
                 [w EXCEPT !.ui = HandleEvent(w.ui, Head(batch)),
                           !.d = IF Head(batch) = "resize" THEN WindowResized(@, w.rq)
                                 ELSE @], t, net),
             Tail(batch), t, net)

\* The clicks on the Connect button that a batch of events holds in full: a
\* left press with the pointer inside the button of the shown panel, then a
\* left release with the pointer inside it.  armed: a press inside is held.
RECURSIVE PhysicalClicks(_, _, _)
PhysicalClicks(ui, armed, batch) ==
    IF batch = << >> THEN 0
    ELSE LET e == Head(batch)
             u == HandleEvent(ui, e)
             on_btn == u.show_settings /\ u.mouse.in_btn
         IN  IF e = "down" THEN PhysicalClicks(u, on_btn, Tail(batch))
             ELSE IF e = "up"
             THEN (IF armed /\ on_btn THEN 1 ELSE 0) + PhysicalClicks(u, FALSE, Tail(batch))
             ELSE PhysicalClicks(u, armed, Tail(batch))

\* The event batches one frame may deliver.
EventBatches ==
    {<< >>, <<"tab">>, <<"escape">>, <<"quit">>, <<"move_in">>, <<"move_out">>,
     <<"down", "up">>}

(***************************************************************************)
(* Gain tracker, colour map and canvas.  A spectral frame is given by the  *)
(* decibel value 20*log10(magnitude + 1e-10) of each of its columns; the   *)
(* FFT that produces the magnitudes is not modelled.                       *)
(***************************************************************************)
PEAK_DB_INIT == -40 * DB
FLOOR_DB_INIT == -80 * DB
\* AGC_ATTACK 0.05 and AGC_DECAY 0.002, in thousandths
AGC_ATTACK == 50
AGC_DECAY == 2

SetMax(S) == CHOOSE m \in S : \A v \in S : v <= m
SetMin(S) == CHOOSE m \in S : \A v \in S : v >= m

FrameMax(frame) == SetMax({-200 * DB} \cup {frame[x] : x \in DOMAIN frame})
FrameMin(frame) == SetMin({200 * DB} \cup {frame[x] : x \in DOMAIN frame})

\* Mutant: follows the frame maximum at the decay rate when it lies above
\* the estimate and at the attack rate when it does not.
AgcPeak_swapped(peak, frame) ==
    peak + ((IF FrameMax(frame) > peak THEN AGC_DECAY ELSE AGC_ATTACK)
            * (FrameMax(frame) - peak)) \div 1000

AgcPeak(peak, frame) ==
    peak + ((IF FrameMax(frame) > peak THEN AGC_ATTACK ELSE AGC_DECAY)
            * (FrameMax(frame) - peak)) \div 1000
\* Mutant: moves the floor estimate by two and a half times its distance
\* from the frame minimum, past the minimum and further from it than before.
AgcFloor_overshoot(floor, frame) ==
    floor + (5 * (FrameMin(frame) - floor)) \div 2

AgcFloor(floor, frame) ==
    floor + ((IF FrameMin(frame) < floor THEN AGC_ATTACK ELSE AGC_DECAY)
             * (FrameMin(frame) - floor)) \div 1000

\* magnitude_to_rgb for a column of decibel value db0 (before the gain
\* offset); norm is kept in thousandths.
magnitude_to_rgb(db0, peak_db, floor_db, gain_offset) ==
    LET db == db0 + gain_offset
        range == IF peak_db - floor_db < 20 * DB THEN 20 * DB ELSE peak_db - floor_db
        raw == ((db - floor_db) * 1000) \div range
        norm == IF raw < 0 THEN 0 ELSE IF raw > 1000 THEN 1000 ELSE raw
    IN  IF norm < 250 THEN [r |-> 0, g |-> 0, b |-> (norm * 4 * 255) \div 1000]
        ELSE IF norm < 500 THEN [r |-> 0, g |-> ((norm - 250) * 4 * 255) \div 1000, b |-> 255]
        ELSE IF norm < 750
        THEN [r |-> ((norm - 500) * 4 * 255) \div 1000, g |-> 255,
              b |-> ((750 - norm) * 4 * 255) \div 1000]
        ELSE [r |-> 255, g |-> ((1000 - norm) * 4 * 255) \div 1000, b |-> 0]

\* memmove of all rows down by one, then the new row at y = 0
ScrollAndDraw(pixels, row) ==
    [y \in DOMAIN pixels |-> IF y = 0 THEN row ELSE pixels[y - 1]]

Green == [r |-> 0, g |-> 255, b |-> 0]
Red == [r |-> 255, g |-> 0, b |-> 0]

\* The pixels of the status square, clipped to a window of width x height
StatusSquare(width, height) ==
    {p \in (0 .. width - 1) \X (0 .. height - 1) :
        /\ p[1] >= width - StatusSize - StatusMargin /\ p[1] < width - StatusMargin
        /\ p[2] >= StatusMargin /\ p[2] < StatusMargin + StatusSize}

draw_status_indicator(pixels, width, height, connected) ==
    [y \in DOMAIN pixels |->
        [x \in DOMAIN pixels[y] |->
            IF <<x, y>> \in StatusSquare(width, height)
            THEN IF connected THEN Green ELSE Red
            ELSE pixels[y][x]]]

\* The record of the rows drawn, after one more
PushRow(rows, row, height) ==
    SubSeq(<<row>> \o rows, 1, IF Len(rows) + 1 > height THEN height ELSE Len(rows) + 1)

(***************************************************************************)
(* State                                                                   *)
(***************************************************************************)
VARIABLES
    sess,                 \* the session record (connection globals, descriptors)
    g_iq_buffer,          \* circular I/Q buffer, slots 0 .. DISPLAY_FFT_SIZE-1
    g_iq_buffer_idx,      \* its write index
    g_new_samples,        \* samples ingested since the last analysis
    got_samples,          \* main's per-iteration flag
    ui,                   \* g_show_settings, running, mouse, g_btn_connect.pressed,
                          \* g_gain_offset
    g_peak_db, g_floor_db,\* smoothed AGC estimates
    g_pixels,             \* the canvas: g_pixels[y][x] is an RGB triple, row 0 on top
    g_window_width, g_window_height,
    g_magnitudes,         \* [null, size]: g_magnitudes is NULL; its number of entries
    g_rows,               \* the colour rows drawn since g_pixels was allocated
    g_raw_buffer,         \* [null, size]: g_raw_buffer is NULL; g_raw_buffer_size
    sample_buffer,        \* [null, size]: sample_buffer is NULL; sample_buffer_size
    g_iq_written,         \* the slots of g_iq_buffer ingestion has written since startup
    g_iq_order,           \* the slots of the last DISPLAY_FFT_SIZE stores, oldest first
    g_relay_host, g_relay_port,
    g_service_discovered, g_discovered_ip, g_discovered_port,
    g_auto_connect, g_discovery_enabled,
    cb,                   \* the discovery thread's position in on_service_discovered
    pc,                   \* the main loop's position
    now,                  \* SDL_GetTicks()
    wire,                 \* where the read cursor stands in the peer's byte stream
    out                   \* what the last step did and printed

vars ==
    << sess, g_iq_buffer, g_iq_buffer_idx, g_new_samples, got_samples, ui,
       g_peak_db, g_floor_db, g_pixels, g_relay_host, g_relay_port, g_service_discovered, g_discovered_ip,
       g_discovered_port, g_auto_connect, g_discovery_enabled, cb, pc, now, wire, out,
       g_raw_buffer, sample_buffer, g_iq_written, g_iq_order, g_window_width, g_window_height,
       g_magnitudes, g_rows >>

g_socket == sess.socket
g_connected == sess.connected
g_sample_rate == sess.sample_rate
g_sample_format == sess.sample_format
g_last_sequence == sess.last_sequence
g_decimator_i == sess.dec_i
g_decimator_q == sess.dec_q
g_last_reconnect_time == sess.last_reconnect_time
g_show_settings == ui.show_settings
g_gain_offset == ui.gain_offset

(***************************************************************************)
(* The peer's byte stream, as seen from the read cursor.  While the session *)
(* is disconnected there is no stream and the record is WireFresh.         *)
(*   lost       -- the cursor has left the frame boundaries of the peer's  *)
(*                 stream: a read stopped inside a frame, or a header was  *)
(*                 read from inside one                                    *)
(*   conforming -- the peer has sent only data and metadata frames         *)
(*   accepted   -- << >> or <<p>>, p the sequence of the last data frame   *)
(*                 accepted in this session                                *)
(*   peer       -- "A": the peer sent a 32-byte stream header; "B": it     *)
(*                 sent a 16-byte one                                      *)
(***************************************************************************)
WireFresh == [lost |-> FALSE, conforming |-> TRUE, accepted |-> << >>, peer |-> "A"]
Aligned == ~wire.lost

\* The record after a step that leaves the session as s2 and the stream as w
WireOf(s2, w) == IF s2.connected THEN w ELSE WireFresh

\* A successful connect starts a new stream; the cursor stands `over` bytes
\* into the peer's first frame.
WireAfterConnect(s, s2, net) ==
    IF ~s.connected /\ s2.connected
    THEN [WireFresh EXCEPT !.lost = net.over > 0, !.peer = IF net.over = 0 THEN "A" ELSE "B"]
    ELSE WireOf(s2, wire)

OutNone ==
    [op |-> "none", gaps |-> << >>, frame |-> << >>, prev |-> << >>,
     header |-> << >>, rcv |-> << >>, meta |-> << >>, svc |-> << >>,
     by |-> "", since |-> << >>, spectrum |-> << >>, window |-> << >>,
     bins |-> << >>, ret |-> << >>, clicks |-> 0]
Out(op) == [OutNone EXCEPT !.op = op]

\* How a connect_to_relay call with network behaviour net ends.
ConnectOp(s, net) ==
    IF s.connected THEN "conn_noop"
    ELSE IF ~net.tcp THEN "conn_tcp_fail"
    ELSE IF net.rcv.res # RECV_OK THEN "conn_hdr_fail"
    ELSE IF net.header.magic # MAGIC_PHXI THEN "conn_bad_magic"
    ELSE "conn_ok"

ConnectOut(s, net) ==
    [Out(ConnectOp(s, net)) EXCEPT
        !.header = IF net.tcp /\ net.rcv.res = RECV_OK /\ ~s.connected
                   THEN <<net.header>> ELSE << >>,
        !.rcv = IF net.tcp /\ ~s.connected THEN <<net.rcv>> ELSE << >>,
        !.ret = <<connect_to_relay_result(s, net)>>]

SessInit ==
    [socket |-> SOCKET_INVALID, connected |-> FALSE,
     sample_rate |-> DISPLAY_SAMPLE_RATE, sample_format |-> SAMPLE_FORMAT_F32,
     last_sequence |-> 0, dec_i |-> DecimatorZero, dec_q |-> DecimatorZero,
     last_reconnect_time |-> 0, stamped |-> FALSE, open |-> {}, rcvtimeo |-> 0]

UiInit ==
    [show_settings |-> FALSE, running |-> TRUE, mouse |-> MouseZero,
     btn_pressed |-> FALSE, gain_offset |-> 0]

\* sdr_server announcements: one server, and two servers at different
\* addresses and ports.
Services == {[ip |-> <<"10.0.", "0.1">>, port |-> DEFAULT_RELAY_PORT]}
DiscoveryServices ==
    Services \cup {[ip |-> <<"10.9.", "9.9">>, port |-> DEFAULT_RELAY_PORT + 1]}

CbIdle == [pc |-> "idle", svc |-> << >>]
\* No discovery listener: none was started, or pn_discovery_shutdown has
\* stopped it.
CbOff == [pc |-> "off", svc |-> << >>]

\* The state main enters its loop in.  gains are the values the gain
\* estimates may hold: <<PEAK_DB_INIT, FLOOR_DB_INIT>> at startup.
InitFrom(gains) ==
    /\ sess = SessInit
    /\ g_iq_buffer = [k \in 0 .. DISPLAY_FFT_SIZE - 1 |-> IqZero]
    /\ g_iq_buffer_idx = 0
    /\ g_new_samples = 0
    /\ got_samples = FALSE
    /\ ui = UiInit
    /\ \E s \in gains : g_peak_db = s[1] /\ g_floor_db = s[2]
    /\ g_window_width = CanvasWidth
    /\ g_window_height = CanvasHeight
    /\ g_pixels = Canvas(CanvasWidth, CanvasHeight)
    /\ g_magnitudes = [null |-> FALSE, size |-> CanvasWidth]
    /\ g_rows = << >>
    /\ g_raw_buffer = NullBuffer
    /\ sample_buffer = NullBuffer
    /\ g_iq_written = {}
    /\ g_iq_order = << >>
    /\ g_relay_host = DEFAULT_RELAY_HOST
    /\ g_relay_port = DEFAULT_RELAY_PORT
    /\ g_auto_connect \in BOOLEAN
    /\ g_discovery_enabled \in BOOLEAN
    \* pn_find_service at startup may already have found a server
    /\ \/ /\ g_service_discovered = FALSE
          /\ g_discovered_ip = EmptyHost
          /\ g_discovered_port = 0
       \/ /\ g_discovery_enabled
          /\ g_service_discovered = TRUE
          /\ \E svc \in Services :
                g_discovered_ip = svc.ip /\ g_discovered_port = svc.port
    /\ cb = IF g_discovery_enabled THEN CbIdle ELSE CbOff
    /\ pc = "discover"
    /\ now = 0
    /\ wire = WireFresh
    /\ out = OutNone

Init == InitFrom({<<PEAK_DB_INIT, FLOOR_DB_INIT>>})

bufVars == << g_iq_buffer, g_iq_buffer_idx, g_new_samples >>
memVars == << g_raw_buffer, sample_buffer, g_iq_written, g_iq_order >>
gainVars == << g_peak_db, g_floor_db >>
canvasVars == << g_pixels, g_window_width, g_window_height, g_magnitudes, g_rows >>
relayVars == << g_relay_host, g_relay_port >>
discVars == << g_service_discovered, g_discovered_ip, g_discovered_port, cb >>
cfgVars == << g_auto_connect, g_discovery_enabled >>

(***************************************************************************)
(* Environment: the clock and the discovery thread                         *)
(***************************************************************************)
Halted == pc \in {"done", "crashed"}

Tick ==
    /\ ~Halted
    /\ IF now + TickMs <= MaxNow
       THEN now' = now + TickMs /\ sess' = sess
       ELSE /\ now' = now
            /\ sess' = [sess EXCEPT !.last_reconnect_time =
                            IF @ >= TickMs THEN @ - TickMs ELSE 0]
    /\ out' = OutNone
    /\ UNCHANGED << bufVars, got_samples, ui, relayVars, discVars, cfgVars, pc, wire, gainVars, canvasVars, memVars >>

\* on_service_discovered for an sdr_server announcement (not a BYE), on the
\* discovery thread: strncpy of the address (front half, then back half),
\* the store of the port, the store of the flag.
CbCopyIpFront(svc) ==
    /\ g_discovery_enabled
    /\ ~Halted
    /\ cb.pc = "idle"
    /\ g_discovered_ip' = <<svc.ip[1], g_discovered_ip[2]>>
    /\ cb' = [pc |-> "ip_back", svc |-> <<svc>>]
    /\ out' = OutNone
    /\ UNCHANGED << sess, bufVars, got_samples, ui, relayVars, cfgVars, pc, now, wire,
                    gainVars, canvasVars, memVars, g_discovered_port, g_service_discovered >>

CbCopyIpBack ==
    /\ cb.pc = "ip_back"
    /\ ~Halted
    /\ g_discovered_ip' = <<g_discovered_ip[1], cb.svc[1].ip[2]>>
    /\ cb' = [cb EXCEPT !.pc = "port"]
    /\ out' = OutNone
    /\ UNCHANGED << sess, bufVars, got_samples, ui, relayVars, cfgVars, pc, now, wire,
                    gainVars, canvasVars, memVars, g_discovered_port, g_service_discovered >>

CbStorePort ==
    /\ cb.pc = "port"
    /\ ~Halted
    /\ g_discovered_port' = cb.svc[1].port
    /\ cb' = [cb EXCEPT !.pc = "flag"]
    /\ out' = OutNone
    /\ UNCHANGED << sess, bufVars, got_samples, ui, relayVars, cfgVars, pc, now, wire,
                    gainVars, canvasVars, memVars, g_discovered_ip, g_service_discovered >>

CbSetFlag ==
    /\ cb.pc = "flag"
    /\ ~Halted
    /\ g_service_discovered' = TRUE
    /\ cb' = CbIdle
    /\ out' = [Out("discovered") EXCEPT !.svc = cb.svc]
    /\ UNCHANGED << sess, bufVars, got_samples, ui, relayVars, cfgVars, pc, now, wire,
                    gainVars, canvasVars, memVars, g_discovered_ip, g_discovered_port >>

on_service_discovered(svcs) ==
    \/ \E svc \in svcs : CbCopyIpFront(svc)
    \/ CbCopyIpBack
    \/ CbStorePort
    \/ CbSetFlag

(***************************************************************************)
(* Main loop, lines 772-810: discovery handoff and reconnect timer         *)
(***************************************************************************)
\* Lines 774-775: test the flag and clear it
DiscoverPoll ==
    /\ pc = "discover"
    /\ ui.running
    /\ IF g_service_discovered /\ ~g_connected
       THEN /\ g_service_discovered' = FALSE
            /\ pc' = "adopt_host"
       ELSE /\ pc' = "reconnect"
            /\ UNCHANGED g_service_discovered
    /\ out' = OutNone
    /\ UNCHANGED << sess, bufVars, got_samples, ui, relayVars, g_discovered_ip,
                    g_discovered_port, cb, cfgVars, now, wire, gainVars, canvasVars, memVars >>

\* Line 778: strncpy(g_relay_host, g_discovered_ip), front half then back half
DiscoverCopyHostFront ==
    /\ pc = "adopt_host"
    /\ pc' = "adopt_host_back"
    /\ g_relay_host' = <<g_discovered_ip[1], g_relay_host[2]>>
    /\ out' = OutNone
    /\ UNCHANGED << sess, bufVars, got_samples, ui, g_relay_port, discVars, cfgVars, now,
                    wire, gainVars, canvasVars, memVars >>

DiscoverCopyHostBack ==
    /\ pc = "adopt_host_back"
    /\ pc' = "adopt_port"
    /\ g_relay_host' = <<g_relay_host[1], g_discovered_ip[2]>>
    /\ out' = OutNone
    /\ UNCHANGED << sess, bufVars, got_samples, ui, g_relay_port, discVars, cfgVars, now,
                    wire, gainVars, canvasVars, memVars >>

\* Lines 779-796: the port is copied and, with auto-connect, connect_to_relay
\* is called
DiscoverAdopt(nets) ==
    /\ pc = "adopt_port"
    /\ pc' = "reconnect"
    /\ g_relay_port' = g_discovered_port
    /\ IF g_auto_connect
       THEN \E net \in nets :
              /\ sess' = connect_to_relay(sess, now, net)
              /\ wire' = WireAfterConnect(sess, sess', net)
              /\ out' = [ConnectOut(sess, net) EXCEPT !.by = "discovery",
                                                      !.since = IF sess.stamped
                                                                THEN <<now - g_last_reconnect_time>>
                                                                ELSE << >>]
       ELSE /\ out' = Out("adopted")
            /\ UNCHANGED << sess, wire >>
    /\ UNCHANGED << bufVars, got_samples, ui, g_relay_host, discVars, cfgVars, now,
                    gainVars, canvasVars, memVars >>

\* Mutant: a connection made by the retry timer starts the gain estimates
\* afresh.
Reconnect_resets_gain(nets) ==
    /\ pc = "reconnect"
    /\ pc' = "events"
    /\ IF /\ ~g_connected
          /\ now - g_last_reconnect_time >= RECONNECT_INTERVAL_MS
          /\ (g_discovery_enabled \/ g_relay_host # EmptyHost)
       THEN \E net \in nets :
              /\ sess' = connect_to_relay(sess, now, net)
              /\ wire' = WireAfterConnect(sess, sess', net)
              /\ out' = [ConnectOut(sess, net) EXCEPT !.by = "timer",
                                                      !.since = IF sess.stamped
                                                                THEN <<now - g_last_reconnect_time>>
                                                                ELSE << >>]
              /\ g_peak_db' = IF sess'.connected THEN PEAK_DB_INIT ELSE g_peak_db
              /\ g_floor_db' = IF sess'.connected THEN FLOOR_DB_INIT ELSE g_floor_db
       ELSE /\ out' = OutNone
            /\ UNCHANGED << sess, wire, gainVars >>
    /\ UNCHANGED << bufVars, got_samples, ui, relayVars, discVars, cfgVars, now, canvasVars, memVars >>

\* Mutant: the retry timer acts only when discovery is enabled.
Reconnect_needs_discovery(nets) ==
    /\ pc = "reconnect"
    /\ pc' = "events"
    /\ IF /\ ~g_connected
          /\ now - g_last_reconnect_time >= RECONNECT_INTERVAL_MS
          /\ g_discovery_enabled
       THEN \E net \in nets :
              /\ sess' = connect_to_relay(sess, now, net)
              /\ wire' = WireAfterConnect(sess, sess', net)
              /\ out' = [ConnectOut(sess, net) EXCEPT !.by = "timer",
                                                      !.since = IF sess.stamped
                                                                THEN <<now - g_last_reconnect_time>>
                                                                ELSE << >>]
       ELSE /\ out' = OutNone
            /\ UNCHANGED << sess, wire >>
    /\ UNCHANGED << bufVars, got_samples, ui, relayVars, discVars, cfgVars, now, gainVars, canvasVars, memVars >>

Reconnect(nets) ==
    /\ pc = "reconnect"
    /\ pc' = "events"
    /\ IF /\ ~g_connected
          /\ now - g_last_reconnect_time >= RECONNECT_INTERVAL_MS
          /\ (g_discovery_enabled \/ g_relay_host # EmptyHost)
       THEN \E net \in nets :
              /\ sess' = connect_to_relay(sess, now, net)
              /\ wire' = WireAfterConnect(sess, sess', net)
              /\ out' = [ConnectOut(sess, net) EXCEPT !.by = "timer",
                                                      !.since = IF sess.stamped
                                                                THEN <<now - g_last_reconnect_time>>
                                                                ELSE << >>]
       ELSE /\ out' = OutNone
            /\ UNCHANGED << sess, wire >>
    /\ UNCHANGED << bufVars, got_samples, ui, relayVars, discVars, cfgVars, now, gainVars, canvasVars, memVars >>

\* connect_to_relay called on a connected session.  Each of its three call
\* sites tests g_connected first, so that the main loop never makes this
\* call; it is a step of the request specification only.
ConnectWhileConnected(nets) ==
    /\ ~Halted
    /\ g_connected
    /\ \E net \in nets :
         /\ sess' = connect_to_relay(sess, now, net)
         /\ wire' = WireAfterConnect(sess, sess', net)
         /\ out' = [ConnectOut(sess, net) EXCEPT !.by = "call"]
    /\ UNCHANGED << bufVars, got_samples, ui, relayVars, discVars, cfgVars, pc, now,
                    gainVars, canvasVars, memVars >>

(***************************************************************************)
(* Main loop, lines 812-905: one frame's SDL events                        *)
(***************************************************************************)
PollEvents(batches, nets, resizes) ==
    /\ pc = "events"
    /\ pc' = "recv"
    /\ \E batch \in batches, rq \in resizes :
         LET u0 == [ui EXCEPT !.mouse.left_clicked = FALSE,
                              !.mouse.left_released = FALSE]
             w0 == [s |-> sess, ui |-> u0, toggles |-> 0, rq |-> rq,
                    d |-> [width |-> g_window_width, height |-> g_window_height,
                           pixels |-> g_pixels, magnitudes |-> g_magnitudes,
                           rows |-> g_rows]]
             dry == ProcessEvents(w0, batch, now, CHOOSE n \in nets : TRUE)
         IN  \E net \in IF dry.toggles = 0 THEN {CHOOSE n \in nets : TRUE} ELSE nets :
               LET w == ProcessEvents(w0, batch, now, net)
               IN  /\ sess' = w.s
                   /\ ui' = w.ui
                   /\ wire' = IF w.s.connected /\ w.toggles >= 2 THEN WireFresh
                              ELSE WireAfterConnect(sess, w.s, net)
                   /\ out' = [(IF w.toggles = 0 THEN OutNone
                               ELSE IF w.toggles > 1 THEN Out("toggles")
                               ELSE IF sess.connected THEN Out("user_disconnect")
                               ELSE [ConnectOut(sess, net) EXCEPT !.by = "user"])
                                 EXCEPT !.clicks = PhysicalClicks(u0, FALSE, batch)]
                   /\ g_window_width' = w.d.width
                   /\ g_window_height' = w.d.height
                   /\ g_pixels' = w.d.pixels
                   /\ g_magnitudes' = w.d.magnitudes
                   /\ g_rows' = w.d.rows
    /\ UNCHANGED << bufVars, got_samples, relayVars, discVars, cfgVars, now, gainVars, memVars >>

(***************************************************************************)
(* Main loop, lines 907-1006: read one frame from the stream               *)
(***************************************************************************)
\* The cursor after a frame-header read that took `got` bytes and timed out
WireAfterPartialHeader(got) ==
    IF got = 0 THEN wire ELSE [wire EXCEPT !.lost = TRUE]

\* The cursor after a whole frame's length was taken off the stream
WireAfterFrame == wire

RecvNotConnected ==
    /\ pc = "recv"
    /\ ~g_connected
    /\ pc' = "render"
    /\ got_samples' = FALSE
    /\ out' = OutNone
    /\ UNCHANGED << sess, bufVars, ui, relayVars, discVars, cfgVars, now, wire, gainVars, canvasVars, memVars >>

\* Mutant: treats a timed-out header read like a lost connection.
RecvHeaderTimeout_disconnects ==
    /\ pc = "recv"
    /\ g_connected
    /\ \E r \in tcp_recv_exact(IQDQ_HEADER_BYTES) :
         /\ r.res = RECV_TIMEOUT
         /\ wire' = WireAfterPartialHeader(r.got)
         /\ out' = [Out("hdr_timeout") EXCEPT !.rcv = <<r>>]
    /\ sess' = disconnect_from_relay(sess, now)
    /\ pc' = "render"
    /\ got_samples' = FALSE
    /\ UNCHANGED << bufVars, ui, relayVars, discVars, cfgVars, now, gainVars, canvasVars, memVars >>

RecvHeaderTimeout ==
    /\ pc = "recv"
    /\ g_connected
    /\ \E r \in tcp_recv_exact(IQDQ_HEADER_BYTES) :
         /\ r.res = RECV_TIMEOUT
         /\ wire' = WireAfterPartialHeader(r.got)
         /\ out' = [Out("hdr_timeout") EXCEPT !.rcv = <<r>>]
    /\ pc' = "render"
    /\ got_samples' = FALSE
    /\ UNCHANGED << sess, bufVars, ui, relayVars, discVars, cfgVars, now, gainVars, canvasVars, memVars >>

RecvHeaderError ==
    /\ pc = "recv"
    /\ g_connected
    /\ \E r \in tcp_recv_exact(IQDQ_HEADER_BYTES) :
         /\ r.res = RECV_ERROR
         /\ out' = [Out("hdr_error") EXCEPT !.rcv = <<r>>]
    /\ sess' = disconnect_from_relay(sess, now)
    /\ wire' = WireFresh
    /\ pc' = "render"
    /\ got_samples' = FALSE
    /\ UNCHANGED << bufVars, ui, relayVars, discVars, cfgVars, now, gainVars, canvasVars, memVars >>

\* A data frame: sequence check, buffer growth, payload read, conversion,
\* decimation.  allocs are the results realloc may give (TRUE: memory).
\* A payload read into a NULL g_raw_buffer fails in recv (EFAULT); a
\* conversion into a NULL sample_buffer writes through the null pointer and
\* the process dies.  When a byte count has wrapped, the buffers are shorter
\* than num_samples pairs and the conversion and the ingestion loop run past
\* their ends: the process dies, or it goes on with whatever floats lay
\* there; the read cursor no longer stands at a frame boundary.
RecvData(frames, allocs) ==
    /\ pc = "recv"
    /\ g_connected
    /\ \E f \in frames, raw_ok \in allocs, float_ok \in allocs :
         /\ f.magic = MAGIC_IQDQ
         /\ g_raw_buffer' = GrowBuffer(g_raw_buffer, DataBytes(f.num_samples, g_sample_format), raw_ok)
         /\ sample_buffer' = GrowBuffer(sample_buffer, FloatBytes(f.num_samples), float_ok)
         /\ \E r \in IF DataBytes(f.num_samples, g_sample_format) > 0 /\ g_raw_buffer'.null
                      THEN {[res |-> RECV_ERROR, got |-> 0]}
                      ELSE tcp_recv_exact(DataBytes(f.num_samples, g_sample_format)),
                dies \in IF FloatBytes(f.num_samples) = PayloadBytes(f.num_samples, SAMPLE_FORMAT_F32)
                         THEN {FALSE} ELSE BOOLEAN :
              LET s1 == [sess EXCEPT !.last_sequence = f.sequence]
                  o == [Out(IF r.res = RECV_OK THEN "data_ok" ELSE "data_fail") EXCEPT
                           !.gaps = GapReport(g_last_sequence, f.sequence),
                           !.frame = <<f>>, !.prev = wire.accepted, !.rcv = <<r>>]
                  overrun ==
                      \/ g_raw_buffer'.size < PayloadBytes(f.num_samples, g_sample_format)
                      \/ sample_buffer'.size < PayloadBytes(f.num_samples, SAMPLE_FORMAT_F32)
              IN  IF /\ r.res = RECV_OK
                     /\ \/ f.num_samples > 0 /\ sample_buffer'.null
                        \/ overrun /\ dies
                  THEN /\ pc' = "crashed"
                       /\ sess' = s1
                       /\ got_samples' = FALSE
                       /\ wire' = [WireAfterFrame EXCEPT
                                           !.accepted = <<f.sequence>>,
                                           !.lost = @ \/ r.got # PayloadBytes(f.num_samples,
                                                                              g_sample_format)]
                       /\ out' = [o EXCEPT !.op = "crash"]
                       /\ UNCHANGED << bufVars, g_iq_written, g_iq_order >>
                  ELSE IF r.res = RECV_OK
                  THEN \E payload \in Payloads(g_sample_format, f.num_samples) :
                       \E fb \in SampleBuffers(g_sample_format, payload) :
                         LET b == Ingest([buffer |-> g_iq_buffer, idx |-> g_iq_buffer_idx,
                                          new |-> g_new_samples,
                                          dec_i |-> s1.dec_i, dec_q |-> s1.dec_q,
                                          order |-> g_iq_order], fb)
                         IN  /\ pc' = "render"
                             /\ sess' = [s1 EXCEPT !.dec_i = b.dec_i, !.dec_q = b.dec_q]
                             /\ g_iq_buffer' = b.buffer
                             /\ g_iq_buffer_idx' = b.idx
                             /\ g_new_samples' = b.new
                             /\ g_iq_order' = b.order
                             /\ g_iq_written' = g_iq_written \cup
                                    {(g_iq_buffer_idx + j) % DISPLAY_FFT_SIZE :
                                        j \in 0 .. (b.new - g_new_samples) - 1}
                             /\ got_samples' = (b.new >= DISPLAY_OVERLAP)
                             /\ wire' = [WireAfterFrame EXCEPT
                                           !.accepted = <<f.sequence>>,
                                           !.lost = @ \/ r.got # PayloadBytes(f.num_samples,
                                                                              g_sample_format)]
                             /\ out' = o
                  ELSE /\ pc' = "render"
                       /\ sess' = disconnect_from_relay(s1, now)
                       /\ got_samples' = FALSE
                       /\ wire' = WireFresh
                       /\ out' = o
                       /\ UNCHANGED << bufVars, g_iq_written, g_iq_order >>
    /\ UNCHANGED << ui, relayVars, discVars, cfgVars, now, gainVars, canvasVars >>

\* Mutant: takes a metadata frame's sequence number into the tracker of
\* data-frame sequences.
RecvMeta_tracks_sequence(frames) ==
    /\ pc = "recv"
    /\ g_connected
    /\ pc' = "render"
    /\ got_samples' = FALSE
    /\ \E f \in frames :
         /\ f.magic = MAGIC_META
         /\ sess' = [sess EXCEPT !.last_sequence = f.sequence]
         /\ \E r \in tcp_recv_exact(META_FRAME_BYTES - IQDQ_HEADER_BYTES) :
              /\ \E body \in IF r.res = RECV_OK THEN {<<m>> : m \in MetaBodies} ELSE {<< >>} :
                    out' = [Out(IF r.res = RECV_OK THEN "meta_ok" ELSE "meta_fail") EXCEPT
                               !.frame = <<f>>, !.rcv = <<r>>, !.meta = body]
              /\ wire' = IF r.res = RECV_OK THEN WireAfterFrame
                         ELSE [wire EXCEPT !.lost = TRUE]
    /\ UNCHANGED << bufVars, ui, relayVars, discVars, cfgVars, now, gainVars, canvasVars, memVars >>

\* A metadata frame: the remaining 16 bytes are read and, when they arrive
\* in full, logged
RecvMeta(frames) ==
    /\ pc = "recv"
    /\ g_connected
    /\ pc' = "render"
    /\ got_samples' = FALSE
    /\ \E f \in frames :
         /\ f.magic = MAGIC_META
         /\ \E r \in tcp_recv_exact(META_FRAME_BYTES - IQDQ_HEADER_BYTES) :
              /\ \E body \in IF r.res = RECV_OK THEN {<<m>> : m \in MetaBodies} ELSE {<< >>} :
                    out' = [Out(IF r.res = RECV_OK THEN "meta_ok" ELSE "meta_fail") EXCEPT
                               !.frame = <<f>>, !.rcv = <<r>>, !.meta = body]
              /\ wire' = IF r.res = RECV_OK THEN WireAfterFrame
                         ELSE [wire EXCEPT !.lost = TRUE]
    /\ UNCHANGED << sess, bufVars, ui, relayVars, discVars, cfgVars, now, gainVars, canvasVars, memVars >>

\* Mutant: treats a frame of unknown type as a protocol error and disconnects.
RecvUnknown_disconnects(frames) ==
    /\ pc = "recv"
    /\ g_connected
    /\ pc' = "render"
    /\ got_samples' = FALSE
    /\ \E f \in frames :
         /\ f.magic \notin {MAGIC_IQDQ, MAGIC_META}
         /\ out' = [Out("unknown") EXCEPT !.frame = <<f>>]
         /\ \E lost \in BOOLEAN :
              wire' = [wire EXCEPT !.lost = lost \/ ~Aligned,
                                   !.conforming = @ /\ ~Aligned]
    /\ sess' = disconnect_from_relay(sess, now)
    /\ UNCHANGED << bufVars, ui, relayVars, discVars, cfgVars, now, gainVars, canvasVars, memVars >>

\* Any other magic: logged, nothing else.  A frame of unknown type has no
\* known length, so the cursor may or may not stand at a frame boundary.
RecvUnknown(frames) ==
    /\ pc = "recv"
    /\ g_connected
    /\ pc' = "render"
    /\ got_samples' = FALSE
    /\ \E f \in frames :
         /\ f.magic \notin {MAGIC_IQDQ, MAGIC_META}
         /\ out' = [Out("unknown") EXCEPT !.frame = <<f>>]
         /\ \E lost \in BOOLEAN :
              wire' = [wire EXCEPT !.lost = lost \/ ~Aligned,
                                   !.conforming = @ /\ ~Aligned]
    /\ UNCHANGED << sess, bufVars, ui, relayVars, discVars, cfgVars, now, gainVars, canvasVars, memVars >>

(***************************************************************************)
(* Main loop, lines 1008-1097: analysis and presentation                   *)
(***************************************************************************)
\* The analysis writes g_window_width magnitudes and scrolls g_pixels: with
\* either buffer missing, or g_magnitudes shorter than the window is wide,
\* it writes outside its buffers.
DisplayLost ==
    \/ g_pixels = NullPixels
    \/ g_magnitudes.null
    \/ g_magnitudes.size < g_window_width

\* Lines 1033-1040: the FFT bin of column i of a window `width` wide.
\* freq / bin_hz is the fraction FreqNum / FreqDen, with
\* freq = (i / width - 0.5) * 2 * ZOOM_MAX_HZ and bin_hz = DISPLAY_HZ_PER_BIN
\* = DISPLAY_SAMPLE_RATE / DISPLAY_FFT_SIZE; the arithmetic is exact where
\* the code's is in single precision.
ZOOM_MAX_HZ == 5000
FreqNum(i, width) == (2 * i - width) * ZOOM_MAX_HZ * DISPLAY_FFT_SIZE
FreqDen(width) == width * DISPLAY_SAMPLE_RATE

\* (int)(num / den + 0.5f) for num >= 0 and (int)(num / den - 0.5f) for
\* num < 0, den > 0: the conversion to int drops the fraction.
IntOfShifted(num, den) ==
    IF num >= 0 THEN (2 * num + den) \div (2 * den)
    ELSE 0 - ((2 * (0 - num) + den) \div (2 * den))

\* The bin a column reads: lines 1033-1040, with the clamp to the bin range.
ColumnBin(i, width) ==
    LET n == FreqNum(i, width)
        bin == IF n >= 0 THEN IntOfShifted(n, FreqDen(width))
               ELSE DISPLAY_FFT_SIZE + IntOfShifted(n, FreqDen(width))
    IN  IF bin < 0 THEN 0
        ELSE IF bin >= DISPLAY_FFT_SIZE THEN DISPLAY_FFT_SIZE - 1
        ELSE bin

\* Lines 1021-1025: the FFT input.  Position i is read from buffer slot
\* (g_iq_buffer_idx + i) % DISPLAY_FFT_SIZE and multiplied by the window
\* coefficient g_window_func[i]; a product is kept as the pair of its factors
\* <<sample component, i>>.
\* Mutant: reads the buffer from slot 0 whatever the write index.
ReadSlot_from_zero(idx, i) == i

ReadSlot(idx, i) == (idx + i) % DISPLAY_FFT_SIZE

WindowedInput(buffer, idx) ==
    [i \in 0 .. DISPLAY_FFT_SIZE - 1 |->
        [slot |-> ReadSlot(idx, i),
         r |-> <<buffer[ReadSlot(idx, i)].i, i>>,
         i |-> <<buffer[ReadSlot(idx, i)].q, i>>]]

\* Mutant: produces the frame without resetting the new-sample counter.
Render_keeps_count(spectra) ==
    /\ pc = "render"
    /\ IF got_samples /\ DisplayLost
       THEN /\ pc' = "crashed"
            /\ g_new_samples' = g_new_samples
            /\ out' = Out("crash")
            /\ UNCHANGED << gainVars, canvasVars >>
       ELSE IF got_samples
       THEN \E full \in spectra :
              LET frame == [x \in 0 .. g_window_width - 1 |-> full[x]]
                  row == [x \in 0 .. g_window_width - 1 |->
                             magnitude_to_rgb(frame[x], g_peak_db', g_floor_db',
                                              g_gain_offset)]
              IN  /\ pc' = "discover"
                  /\ g_new_samples' = g_new_samples
                  /\ g_peak_db' = AgcPeak(g_peak_db, frame)
                  /\ g_floor_db' = AgcFloor(g_floor_db, frame)
                  /\ g_pixels' = draw_status_indicator(ScrollAndDraw(g_pixels, row),
                                     g_window_width, g_window_height, g_connected)
                  /\ g_rows' = PushRow(g_rows, row, g_window_height)
                  /\ out' = [Out("analysis") EXCEPT
                                !.spectrum = <<frame>>,
                                !.window = <<WindowedInput(g_iq_buffer, g_iq_buffer_idx)>>,
                                !.bins = <<[x \in 0 .. g_window_width - 1 |->
                                              ColumnBin(x, g_window_width)]>>]
                  /\ UNCHANGED << g_window_width, g_window_height, g_magnitudes >>
       ELSE /\ pc' = "discover"
            /\ out' = IF g_show_settings THEN Out("present") ELSE OutNone
            /\ UNCHANGED << g_new_samples, gainVars, canvasVars >>
    /\ UNCHANGED << sess, g_iq_buffer, g_iq_buffer_idx, got_samples, ui, relayVars,
                    discVars, cfgVars, now, wire, memVars >>

\* Mutant: colours the new row with the gain estimates of before the frame.
Render_stale_gains(spectra) ==
    /\ pc = "render"
    /\ IF got_samples /\ DisplayLost
       THEN /\ pc' = "crashed"
            /\ g_new_samples' = 0
            /\ out' = Out("crash")
            /\ UNCHANGED << gainVars, canvasVars >>
       ELSE IF got_samples
       THEN \E full \in spectra :
              LET frame == [x \in 0 .. g_window_width - 1 |-> full[x]]
                  row == [x \in 0 .. g_window_width - 1 |->
                             magnitude_to_rgb(frame[x], g_peak_db, g_floor_db,
                                              g_gain_offset)]
              IN  /\ pc' = "discover"
                  /\ g_new_samples' = 0
                  /\ g_peak_db' = AgcPeak(g_peak_db, frame)
                  /\ g_floor_db' = AgcFloor(g_floor_db, frame)
                  /\ g_pixels' = draw_status_indicator(ScrollAndDraw(g_pixels, row),
                                     g_window_width, g_window_height, g_connected)
                  /\ g_rows' = PushRow(g_rows, row, g_window_height)
                  /\ out' = [Out("analysis") EXCEPT
                                !.spectrum = <<frame>>,
                                !.window = <<WindowedInput(g_iq_buffer, g_iq_buffer_idx)>>,
                                !.bins = <<[x \in 0 .. g_window_width - 1 |->
                                              ColumnBin(x, g_window_width)]>>]
                  /\ UNCHANGED << g_window_width, g_window_height, g_magnitudes >>
       ELSE /\ pc' = "discover"
            /\ out' = IF g_show_settings THEN Out("present") ELSE OutNone
            /\ UNCHANGED << g_new_samples, gainVars, canvasVars >>
    /\ UNCHANGED << sess, g_iq_buffer, g_iq_buffer_idx, got_samples, ui, relayVars,
                    discVars, cfgVars, now, wire, memVars >>

\* Lines 1008-1097.  A spectral frame is given for the widest window; the
\* analysis takes the columns the window has.  An analysis that writes
\* through a missing buffer ends the process.
Render(spectra) ==
    /\ pc = "render"
    /\ IF got_samples /\ DisplayLost
       THEN /\ pc' = "crashed"
            /\ g_new_samples' = 0
            /\ out' = Out("crash")
            /\ UNCHANGED << gainVars, canvasVars >>
       ELSE IF got_samples
       THEN \E full \in spectra :
              LET frame == [x \in 0 .. g_window_width - 1 |-> full[x]]
                  row == [x \in 0 .. g_window_width - 1 |->
                             magnitude_to_rgb(frame[x], g_peak_db', g_floor_db',
                                              g_gain_offset)]
              IN  /\ pc' = "discover"
                  /\ g_new_samples' = 0
                  /\ g_peak_db' = AgcPeak(g_peak_db, frame)
                  /\ g_floor_db' = AgcFloor(g_floor_db, frame)
                  /\ g_pixels' = draw_status_indicator(ScrollAndDraw(g_pixels, row),
                                     g_window_width, g_window_height, g_connected)
                  /\ g_rows' = PushRow(g_rows, row, g_window_height)
                  /\ out' = [Out("analysis") EXCEPT
                                !.spectrum = <<frame>>,
                                !.window = <<WindowedInput(g_iq_buffer, g_iq_buffer_idx)>>,
                                !.bins = <<[x \in 0 .. g_window_width - 1 |->
                                              ColumnBin(x, g_window_width)]>>]
                  /\ UNCHANGED << g_window_width, g_window_height, g_magnitudes >>
       ELSE /\ pc' = "discover"
            /\ out' = IF g_show_settings THEN Out("present") ELSE OutNone
            /\ UNCHANGED << g_new_samples, gainVars, canvasVars >>
    /\ UNCHANGED << sess, g_iq_buffer, g_iq_buffer_idx, got_samples, ui, relayVars,
                    discVars, cfgVars, now, wire, memVars >>

\* Mutant: the cleanup leaves the session as it is.
Shutdown_keeps_session ==
    /\ pc = "discover"
    /\ ~ui.running
    /\ pc' = "done"
    /\ cb' = IF g_discovery_enabled THEN CbOff ELSE cb
    /\ out' = [Out("shutdown") EXCEPT !.prev = wire.accepted]
    /\ UNCHANGED << sess, wire, bufVars, got_samples, ui, relayVars, g_service_discovered,
                    g_discovered_ip, g_discovered_port, cfgVars, now, gainVars, canvasVars,
                    memVars >>

\* Cleanup after the loop, lines 1100-1110: disconnect_from_relay, then
\* pn_discovery_shutdown if discovery is enabled.  out.prev is the sequence
\* of the last data frame of the session that the cleanup ended, if any.
Shutdown ==
    /\ pc = "discover"
    /\ ~ui.running
    /\ pc' = "done"
    /\ sess' = disconnect_from_relay(sess, now)
    /\ wire' = WireFresh
    /\ cb' = IF g_discovery_enabled THEN CbOff ELSE cb
    /\ out' = [Out("shutdown") EXCEPT !.prev = wire.accepted]
    /\ UNCHANGED << bufVars, got_samples, ui, relayVars, g_service_discovered,
                    g_discovered_ip, g_discovered_port, cfgVars, now, gainVars, canvasVars,
                    memVars >>

(***************************************************************************)
(* Specifications                                                          *)
(***************************************************************************)
\* The event batches of the session specification: the user opens or closes
\* the panel, moves onto the Connect button, clicks it, or quits.
SessionBatches ==
    {<< >>, <<"tab", "move_in">>, <<"down", "up">>, <<"quit">>}
\* Its frames: a data frame without samples, a metadata frame, an unknown one.
SessionFrames ==
    {[magic |-> m, sequence |-> 1, num_samples |-> 0] :
        m \in {MAGIC_IQDQ, MAGIC_META, MAGIC_OTHER}}

\* A spectral frame whose extremes equal the initial gain estimates.
SteadySpectra ==
    {[x \in 0 .. CanvasWidth - 1 |-> IF x = 0 THEN FLOOR_DB_INIT ELSE PEAK_DB_INIT]}

\* Session: every way a connection is made or lost (discovery, retry timer,
\* button clicks, header failures, stream errors, shutdown).
Next ==
    \/ Tick
    \/ on_service_discovered(Services)
    \/ DiscoverPoll
    \/ DiscoverCopyHostFront
    \/ DiscoverCopyHostBack
    \/ DiscoverAdopt(ConnectOutcomes(SessionHeaders))
    \/ Reconnect(ConnectOutcomes(SessionHeaders))
    \/ PollEvents(SessionBatches, ConnectOutcomes(SessionHeaders), SameSize)
    \/ RecvNotConnected
    \/ RecvHeaderTimeout
    \/ RecvHeaderError
    \/ RecvData(SessionFrames, {TRUE})
    \/ RecvMeta(SessionFrames)
    \/ RecvUnknown(SessionFrames)
    \/ Render(SteadySpectra)
    \/ Shutdown

Spec == Init /\ [][Next]_vars

\* Liveness of the retry: the session specification's main-loop steps, with the main
\* loop never stopping between two of its phases (it is one thread running
\* a while loop whose every call returns within a socket timeout) and the
\* clock never stopping.
LoopStep ==
    \/ DiscoverPoll
    \/ Reconnect(ConnectOutcomes(SessionHeaders))
    \/ PollEvents(SessionBatches, ConnectOutcomes(SessionHeaders), SameSize)
    \/ RecvNotConnected
    \/ RecvHeaderTimeout
    \/ RecvHeaderError
    \/ RecvData(SessionFrames, {TRUE})
    \/ RecvMeta(SessionFrames)
    \/ RecvUnknown(SessionFrames)
    \/ Render(SteadySpectra)
    \/ Shutdown

NextLive ==
    \/ Tick
    \/ LoopStep

\* Started with --no-discovery: the target is the configured host and port.
InitLive == Init /\ ~g_discovery_enabled

SpecLive == InitLive /\ [][NextLive]_vars /\ WF_vars(Tick) /\ WF_vars(LoopStep)

\* Stream: started with --no-discovery and left alone by the user, so that
\* connections come from the retry timer only; every header and frame;
\* realloc always returns memory.  Of a metadata or unknown frame the code
\* reads no field but magic and sequence: the third header word is kept 0,
\* and unknown frames all carry sequence 0.
StreamFrames ==
    {f \in FrameHeaders :
        \/ f.magic = MAGIC_IQDQ
        \/ f.magic = MAGIC_META /\ f.num_samples = 0
        \/ f.magic = MAGIC_OTHER /\ f.num_samples = 0 /\ f.sequence = 0}

InitStream == Init /\ ~g_discovery_enabled /\ g_auto_connect

NextStream ==
    \/ Tick
    \/ DiscoverPoll
    \/ Reconnect(ConnectOutcomes(StreamHeaders))
    \/ PollEvents({<< >>}, ConnectOutcomes(StreamHeaders), SameSize)
    \/ RecvNotConnected
    \/ RecvHeaderTimeout
    \/ RecvHeaderError
    \/ RecvData(StreamFrames, {TRUE})
    \/ RecvMeta(StreamFrames)
    \/ RecvUnknown(StreamFrames)
    \/ Render(SteadySpectra)

SpecStream == InitStream /\ [][NextStream]_vars

\* Discovery: two servers announce themselves, in any order and any number
\* of times, while the main loop polls the flag; connections fail or are
\* lost so that the session is disconnected again and again.
InitDiscovery == Init /\ g_discovery_enabled

NextDiscovery ==
    \/ Tick
    \/ on_service_discovered(DiscoveryServices)
    \/ DiscoverPoll
    \/ DiscoverCopyHostFront
    \/ DiscoverCopyHostBack
    \/ DiscoverAdopt(ConnectOutcomes(SessionHeaders))
    \/ Reconnect(ConnectOutcomes(SessionHeaders))
    \/ PollEvents({<< >>}, ConnectOutcomes(SessionHeaders), SameSize)
    \/ RecvNotConnected
    \/ RecvHeaderTimeout
    \/ RecvHeaderError
    \/ Render(SteadySpectra)

SpecDiscovery == InitDiscovery /\ [][NextDiscovery]_vars

\* Ingestion: sessions at the display rate and at twice the display rate,
\* data, metadata and unknown frames, timeouts, lost connections and
\* reconnects, and a user who resizes the window.
IngestHeaders ==
    {Header(MAGIC_PHXI, DISPLAY_SAMPLE_RATE, SAMPLE_FORMAT_F32),
     Header(MAGIC_PHXI, 2 * DISPLAY_SAMPLE_RATE, SAMPLE_FORMAT_S16)}
IngestFrames == {f \in StreamFrames : f.sequence <= 1}

NextIngest ==
    \/ Tick
    \/ DiscoverPoll
    \/ Reconnect(ConnectOutcomes(IngestHeaders))
    \/ PollEvents({<< >>, <<"resize">>}, ConnectOutcomes(IngestHeaders), SameSize)
    \/ RecvNotConnected
    \/ RecvHeaderTimeout
    \/ RecvHeaderError
    \/ RecvData(IngestFrames, {TRUE})
    \/ RecvMeta(IngestFrames)
    \/ RecvUnknown(IngestFrames)
    \/ Render(SteadySpectra)

SpecIngest == InitStream /\ [][NextIngest]_vars

\* Allocation: the stream specification's steps for a float32 and a 16-bit
\* stream, with a realloc that may return NULL.
AllocHeaders ==
    {Header(MAGIC_PHXI, DISPLAY_SAMPLE_RATE, SAMPLE_FORMAT_F32),
     Header(MAGIC_PHXI, 2 * DISPLAY_SAMPLE_RATE, SAMPLE_FORMAT_S16)}
DataFrames == {f \in FrameHeaders : f.magic = MAGIC_IQDQ /\ f.sequence = 1}

NextAlloc ==
    \/ Tick
    \/ DiscoverPoll
    \/ Reconnect(ConnectOutcomes(AllocHeaders))
    \/ PollEvents({<< >>}, ConnectOutcomes(AllocHeaders), SameSize)
    \/ RecvNotConnected
    \/ RecvHeaderTimeout
    \/ RecvData(DataFrames, BOOLEAN)
    \/ Render(SteadySpectra)

SpecAlloc == InitStream /\ [][NextAlloc]_vars

\* Variant B: the peer sends a 16-byte stream header announcing the display
\* rate and then data frames of float32 pairs; the code reads frame headers
\* from wherever its cursor stands in that stream.
NextVariantB ==
    \/ Tick
    \/ DiscoverPoll
    \/ Reconnect(VariantBOutcomes)
    \/ PollEvents({<< >>}, VariantBOutcomes, SameSize)
    \/ RecvNotConnected
    \/ RecvHeaderTimeout
    \/ RecvHeaderError
    \/ RecvData(FrameHeaders, {TRUE})
    \/ RecvMeta(FrameHeaders)
    \/ RecvUnknown(FrameHeaders)
    \/ Render(SteadySpectra)

SpecVariantB == InitStream /\ [][NextVariantB]_vars

\* Canvas: a float32 stream at the display rate whose every data frame
\* completes half a window, so that each frame read draws a row; two
\* spectral frames with the extremes the gain estimates start at and
\* different colour rows; a user who resizes the window.
CanvasHeaders == {Header(MAGIC_PHXI, DISPLAY_SAMPLE_RATE, SAMPLE_FORMAT_F32)}
CanvasFrames ==
    {f \in FrameHeaders :
        f.magic = MAGIC_IQDQ /\ f.sequence = 1 /\ f.num_samples = MaxSamples}
CanvasSpectra ==
    SteadySpectra \cup
        {[x \in 0 .. CanvasWidth - 1 |-> IF x = 0 THEN PEAK_DB_INIT ELSE FLOOR_DB_INIT]}

NextCanvas ==
    \/ Tick
    \/ DiscoverPoll
    \/ Reconnect(ConnectOutcomes(CanvasHeaders))
    \/ PollEvents({<< >>, <<"resize">>}, ConnectOutcomes(CanvasHeaders), SameSize)
    \/ RecvNotConnected
    \/ RecvHeaderTimeout
    \/ RecvData(CanvasFrames, {TRUE})
    \/ Render(CanvasSpectra)

SpecCanvas == InitStream /\ [][NextCanvas]_vars

\* Resize: the canvas specification's stream, with a user who drags the
\* window narrower than its minimum, wider and taller, and an allocator
\* that may return NULL for the pixel buffer or for the magnitude buffer.
ResizeRequests ==
    [width : {CanvasWidth - 1, CanvasWidth + 1}, height : {CanvasHeight, CanvasHeight + 1},
     pixels_ok : BOOLEAN, mags_ok : BOOLEAN]
ResizeSpectra ==
    {[x \in 0 .. CanvasWidth |-> IF x = 0 THEN FLOOR_DB_INIT ELSE PEAK_DB_INIT]}

NextResize ==
    \/ Tick
    \/ DiscoverPoll
    \/ Reconnect(ConnectOutcomes(CanvasHeaders))
    \/ PollEvents({<< >>, <<"resize">>}, ConnectOutcomes(CanvasHeaders), ResizeRequests)
    \/ RecvNotConnected
    \/ RecvHeaderTimeout
    \/ RecvData(CanvasFrames, {TRUE})
    \/ Render(ResizeSpectra)

SpecResize == InitStream /\ [][NextResize]_vars

\* Gain: the canvas specification's stream, with every spectral frame
\* having its maximum at -20 dB and its minimum at -70 dB.  The gain
\* estimates start at their initial values, below both extremes, or at
\* values an earlier, louder signal has left, above both.
TARGET_PEAK_DB == -20 * DB
TARGET_FLOOR_DB == -70 * DB
GainOffsetStart == (3 * DB) \div 5
GainStarts ==
    {<<PEAK_DB_INIT, FLOOR_DB_INIT>>,
     <<TARGET_PEAK_DB + GainOffsetStart, TARGET_FLOOR_DB + GainOffsetStart>>}
TargetSpectra ==
    {[x \in 0 .. CanvasWidth - 1 |-> IF x = 0 THEN TARGET_FLOOR_DB ELSE TARGET_PEAK_DB]}

InitGain == InitFrom(GainStarts) /\ ~g_discovery_enabled /\ g_auto_connect

NextGain ==
    \/ Tick
    \/ DiscoverPoll
    \/ Reconnect(ConnectOutcomes(CanvasHeaders))
    \/ PollEvents({<< >>}, ConnectOutcomes(CanvasHeaders), SameSize)
    \/ RecvNotConnected
    \/ RecvData(CanvasFrames, {TRUE})
    \/ Render(TargetSpectra)

SpecGain == InitGain /\ [][NextGain]_vars

\* Display: sessions that are made by the retry timer or by the user's
\* click on Connect, refused, rejected at the header, lost and ended by the
\* user, with the settings panel opened and closed; every data frame draws
\* a row, from a spectral frame at the initial gain estimates or from one
\* whose maximum is just far enough above the peak estimate to move it; the
\* user raises the gain offset by one key step, once.
DisplayHeaders ==
    {Header(MAGIC_PHXI, DISPLAY_SAMPLE_RATE, SAMPLE_FORMAT_F32),
     Header(MAGIC_OTHER, DISPLAY_SAMPLE_RATE, SAMPLE_FORMAT_F32)}
DisplayBatches ==
    {<< >>, <<"tab", "move_in">>, <<"down", "up">>}
        \cup (IF g_gain_offset <= 0 THEN {<<"plus">>} ELSE {})
DisplaySpectra ==
    SteadySpectra \cup
        {[x \in 0 .. CanvasWidth - 1 |->
            IF x = 0 THEN FLOOR_DB_INIT ELSE PEAK_DB_INIT + 1000 \div AGC_ATTACK]}

NextDisplay ==
    \/ Tick
    \/ DiscoverPoll
    \/ Reconnect(ConnectOutcomes(DisplayHeaders))
    \/ PollEvents(DisplayBatches, ConnectOutcomes(DisplayHeaders), SameSize)
    \/ RecvNotConnected
    \/ RecvHeaderTimeout
    \/ RecvHeaderError
    \/ RecvData(CanvasFrames, {TRUE})
    \/ Render(DisplaySpectra)

SpecDisplay == InitStream /\ [][NextDisplay]_vars

\* Rates: sessions at the display rate, at twice the display rate and at the
\* rate of the raw source the program is written for, each carrying data
\* frames of MaxSamples pairs; the connection is refused, rejected at the
\* header, lost, and made again by the retry timer.
RAW_SOURCE_RATE == 2000000
RateHeaders ==
    {Header(MAGIC_PHXI, rate, SAMPLE_FORMAT_F32) :
        rate \in {DISPLAY_SAMPLE_RATE, 2 * DISPLAY_SAMPLE_RATE, RAW_SOURCE_RATE}}
        \cup {Header(MAGIC_OTHER, DISPLAY_SAMPLE_RATE, SAMPLE_FORMAT_F32)}

NextRates ==
    \/ Tick
    \/ DiscoverPoll
    \/ Reconnect(ConnectOutcomes(RateHeaders))
    \/ PollEvents({<< >>}, ConnectOutcomes(RateHeaders), SameSize)
    \/ RecvNotConnected
    \/ RecvHeaderTimeout
    \/ RecvHeaderError
    \/ RecvData(CanvasFrames, {TRUE})
    \/ Render(SteadySpectra)

SpecRates == InitStream /\ [][NextRates]_vars

\* Factors: sessions whose headers announce a rate of 0, one below the
\* display rate, the display rate, one below twice the display rate, twice
\* the display rate, and the largest rate below 2^31.  Data frames carry
\* 0 to MaxSamples pairs in the sessions that decimate by at most 2 and are
\* empty in the others, whose decimators would count a long way before they
\* produce an output.
MaxRate == 2147483647
FactorHeaders ==
    {Header(MAGIC_PHXI, rate, SAMPLE_FORMAT_F32) :
        rate \in {0, DISPLAY_SAMPLE_RATE - 1, DISPLAY_SAMPLE_RATE,
                  2 * DISPLAY_SAMPLE_RATE - 1, 2 * DISPLAY_SAMPLE_RATE, MaxRate}}
        \cup {Header(MAGIC_OTHER, 2 * DISPLAY_SAMPLE_RATE, SAMPLE_FORMAT_F32)}
FactorFrames ==
    {f \in IngestFrames :
        /\ f.magic = MAGIC_IQDQ /\ f.sequence = 1
        /\ f.num_samples > 0 => g_decimator_i.factor <= 2}

NextFactor ==
    \/ Tick
    \/ DiscoverPoll
    \/ Reconnect(ConnectOutcomes(FactorHeaders))
    \/ PollEvents({<< >>}, ConnectOutcomes(FactorHeaders), SameSize)
    \/ RecvNotConnected
    \/ RecvHeaderTimeout
    \/ RecvHeaderError
    \/ RecvData(FactorFrames, {TRUE})
    \/ Render(SteadySpectra)

SpecFactor == InitStream /\ [][NextFactor]_vars

\* Bins: the canvas specification's stream, with a user who makes the
\* window up to MaxWiden pixels wider than its minimum and narrow again.
BinResizes ==
    [width : CanvasWidth .. CanvasWidth + MaxWiden, height : {CanvasHeight},
     pixels_ok : {TRUE}, mags_ok : {TRUE}]
BinSpectra ==
    {[x \in 0 .. CanvasWidth + MaxWiden - 1 |->
         IF x = 0 THEN FLOOR_DB_INIT ELSE PEAK_DB_INIT]}

NextBins ==
    \/ Tick
    \/ DiscoverPoll
    \/ Reconnect(ConnectOutcomes(CanvasHeaders))
    \/ PollEvents({<< >>, <<"resize">>}, ConnectOutcomes(CanvasHeaders), BinResizes)
    \/ RecvNotConnected
    \/ RecvHeaderTimeout
    \/ RecvData(CanvasFrames, {TRUE})
    \/ Render(BinSpectra)

SpecBins == InitStream /\ [][NextBins]_vars

\* Bytes: a float32 and a 16-bit session whose data frames carry one pair,
\* or so many that the float byte count no longer fits the int it is
\* computed in, or so many that it wraps past zero.
ByteHeaders ==
    {Header(MAGIC_PHXI, DISPLAY_SAMPLE_RATE, SAMPLE_FORMAT_F32),
     Header(MAGIC_PHXI, DISPLAY_SAMPLE_RATE, SAMPLE_FORMAT_S16)}
ByteFrames ==
    {[magic |-> MAGIC_IQDQ, sequence |-> 1, num_samples |-> n] :
        n \in {1, IntMod \div 16, IntMod \div 8}}

NextBytes ==
    \/ Tick
    \/ DiscoverPoll
    \/ Reconnect(ConnectOutcomes(ByteHeaders))
    \/ PollEvents({<< >>}, ConnectOutcomes(ByteHeaders), SameSize)
    \/ RecvNotConnected
    \/ RecvHeaderTimeout
    \/ RecvHeaderError
    \/ RecvData(ByteFrames, {TRUE})
    \/ Render(SteadySpectra)

SpecBytes == InitStream /\ [][NextBytes]_vars

\* Request: the ingestion specification's sessions, with connect_to_relay
\* also called while the session is connected, between any two steps of the
\* main loop and with every behaviour of the network.
NextRequest ==
    \/ Tick
    \/ DiscoverPoll
    \/ Reconnect(ConnectOutcomes(IngestHeaders))
    \/ PollEvents({<< >>}, ConnectOutcomes(IngestHeaders), SameSize)
    \/ ConnectWhileConnected(ConnectOutcomes(IngestHeaders))
    \/ RecvNotConnected
    \/ RecvHeaderTimeout
    \/ RecvHeaderError
    \/ RecvData(IngestFrames, {TRUE})
    \/ Render(SteadySpectra)

SpecRequest == InitStream /\ [][NextRequest]_vars

\* Clicks: the user opens the panel and moves onto the Connect button,
\* leaves it, presses and releases in one frame or in two, alone, with a
\* drag off the button and back in between, or with one or two pointer
\* motions inside the button behind the release.
ClickBatches ==
    {<< >>, <<"tab", "move_in">>, <<"move_out">>, <<"down">>, <<"up">>,
     <<"down", "up">>, <<"down", "move_out", "move_in", "up">>,
     <<"down", "up", "move_in">>, <<"down", "up", "move_in", "move_in">>}

NextClick ==
    \/ Tick
    \/ DiscoverPoll
    \/ Reconnect(ConnectOutcomes(SessionHeaders))
    \/ PollEvents(ClickBatches, ConnectOutcomes(SessionHeaders), SameSize)
    \/ RecvNotConnected
    \/ RecvHeaderTimeout
    \/ RecvHeaderError
    \/ RecvData(SessionFrames, {TRUE})
    \/ Render(SteadySpectra)

SpecClick == InitStream /\ [][NextClick]_vars

(***************************************************************************)
(* Claims                                                                  *)
(***************************************************************************)
NoTransport == g_socket = SOCKET_INVALID /\ sess.open = {}

\* C1: between any two phases of the main loop (so at every iteration
\* boundary), whatever connects, failures, clicks and discovery events came
\* before, the session is disconnected if and only if no transport is held:
\* g_socket is SOCKET_INVALID and no descriptor that was opened is still open.
C1_DisconnectedIffNoTransport ==
    /\ (~g_connected) <=> NoTransport
    /\ g_connected => sess.open = {g_socket}

\* The user clicked Disconnect on a streaming session.
C1_Witness == out.op = "user_disconnect" /\ pc = "recv" /\ ~g_connected /\ NoTransport

\* C2: a connect attempt that fails at the header (short read, peer close,
\* timeout, or wrong magic) closes the transport, leaves the session
\* disconnected, records the failure time, and leaves sample_rate,
\* sample_format, last sequence and both decimators as they were.
C2_HeaderFailureKeepsParams ==
    [][out'.op \in {"conn_hdr_fail", "conn_bad_magic"} =>
          /\ ~g_connected' /\ g_socket' = SOCKET_INVALID /\ sess'.open = {}
          /\ g_last_reconnect_time' = now'
          /\ g_sample_rate' = g_sample_rate
          /\ g_sample_format' = g_sample_format
          /\ g_last_sequence' = g_last_sequence
          /\ g_decimator_i' = g_decimator_i
          /\ g_decimator_q' = g_decimator_q]_vars

\* A bad-magic header arrives after an earlier session negotiated parameters
\* that differ from the rejected header's.
C2_Witness ==
    /\ out.op = "conn_bad_magic"
    /\ out.header # << >>
    /\ g_sample_rate # out.header[1].sample_rate
    /\ g_decimator_i.factor = 2
    /\ g_last_reconnect_time = now /\ now > 0

\* C3: the session becomes connected only by a connect whose complete header
\* has the PHXI magic, and in the state in which it becomes connected it
\* holds exactly that header's sample_rate and sample_format, a last
\* sequence of zero and the 100 ms polling timeout on its socket.
C3_StreamingOnlyAfterHeader ==
    [][(~g_connected /\ g_connected') =>
          /\ out'.op = "conn_ok"
          /\ out'.header # << >>
          /\ out'.header[1].magic = MAGIC_PHXI
          /\ g_sample_rate' = out'.header[1].sample_rate
          /\ g_sample_format' = out'.header[1].sample_format
          /\ g_last_sequence' = 0
          /\ sess'.rcvtimeo = POLL_TIMEOUT_MS]_vars

\* A session has just been entered with the header's non-default parameters.
C3_Witness ==
    /\ out.op = "conn_ok" /\ g_connected
    /\ g_sample_rate = 2 * DISPLAY_SAMPLE_RATE /\ g_sample_format = SAMPLE_FORMAT_S16
    /\ sess.rcvtimeo = POLL_TIMEOUT_MS

\* C4: for data frames p then s accepted one after the other in a session,
\* a gap is reported exactly once, with size s - p - 1, if s is not p + 1
\* modulo the sequence width, and not at all if it is; this for every p,
\* p = 0 included.
C4_GapReportedForEveryPredecessor ==
    (out.op \in {"data_ok", "data_fail"} /\ out.prev # << >>) =>
        LET p == out.prev[1]
            q == out.frame[1].sequence
        IN  out.gaps = IF q = (p + 1) % SeqMod THEN << >>
                       ELSE << (q + 2 * SeqMod - p - 1) % SeqMod >>

\* C5: a data frame whose payload arrives in full is ingested the same way
\* whether or not it reported a gap: with n its sample count, the decimators
\* advance by n inputs, one pair is stored per `factor` inputs at successive
\* write positions, the new-sample counter grows by the pairs stored, the
\* session stays connected and the last sequence becomes the frame's.
C5_GapDoesNotChangeIngestion ==
    [][out'.op = "data_ok" =>
          LET n == out'.frame[1].num_samples
              fac == g_decimator_i.factor
              k == (g_decimator_i.count + n) \div fac
              written == {(g_iq_buffer_idx + j) % DISPLAY_FFT_SIZE : j \in 0 .. k - 1}
          IN  /\ g_connected' /\ g_socket' = g_socket
              /\ g_last_sequence' = out'.frame[1].sequence
              /\ g_new_samples' = g_new_samples + k
              /\ g_iq_buffer_idx' = (g_iq_buffer_idx + k) % DISPLAY_FFT_SIZE
              /\ g_decimator_i'.count = (g_decimator_i.count + n) % fac
              /\ g_decimator_q'.count = (g_decimator_q.count + n) % fac
              /\ \A slot \in 0 .. DISPLAY_FFT_SIZE - 1 :
                    slot \notin written => g_iq_buffer'[slot] = g_iq_buffer[slot]
              /\ \A slot \in written : g_iq_buffer'[slot] \in [i : FloatVals, q : FloatVals]]_vars

\* A frame that reported a gap has had its samples ingested.
C5_Witness ==
    /\ out.op = "data_ok" /\ out.gaps # << >>
    /\ out.frame[1].num_samples > 0
    /\ g_new_samples > 0 /\ g_connected

\* C6: when the payload of a data frame is not received in full, the
\* transport is closed, the session is disconnected, and the circular
\* buffer, its write index, the new-sample counter and the decimators are
\* as they were before the frame.
C6_PayloadFailureDisconnects ==
    [][out'.op = "data_fail" =>
          /\ ~g_connected' /\ g_socket' = SOCKET_INVALID /\ sess'.open = {}
          /\ g_iq_buffer' = g_iq_buffer
          /\ g_iq_buffer_idx' = g_iq_buffer_idx
          /\ g_new_samples' = g_new_samples
          /\ g_decimator_i' = g_decimator_i
          /\ g_decimator_q' = g_decimator_q
          /\ ~got_samples']_vars

\* Part of a payload arrived, then the read timed out.
C6_Witness ==
    /\ out.op = "data_fail"
    /\ out.rcv[1].res = RECV_TIMEOUT /\ out.rcv[1].got > 0
    /\ ~g_connected

\* C7: a timeout of the frame-header read leaves the session connected on
\* the same socket and changes neither the session record (last sequence,
\* format, rate, decimators, retry timestamp) nor the circular buffer, its
\* write index, the new-sample counter, the gain state or the canvas.
C7_HeaderTimeoutIsNoOp ==
    [][out'.op = "hdr_timeout" =>
          /\ g_connected'
          /\ sess' = sess
          /\ g_iq_buffer' = g_iq_buffer
          /\ g_iq_buffer_idx' = g_iq_buffer_idx
          /\ g_new_samples' = g_new_samples
          /\ g_peak_db' = g_peak_db
          /\ g_floor_db' = g_floor_db
          /\ g_gain_offset' = g_gain_offset
          /\ g_pixels' = g_pixels]_vars

\* A header read timed out in a session that has accepted frames, holds
\* samples not yet analysed and has drawn rows on the canvas.
C7_Witness ==
    /\ out.op = "hdr_timeout" /\ g_connected
    /\ g_last_sequence # 0 /\ g_new_samples > 0
    /\ g_pixels[0][CanvasWidth - 1] # Black

\* C8: a hard error of the frame-header read closes the transport,
\* disconnects the session and records the time of the disconnect.
C8_HeaderErrorDisconnects ==
    out.op = "hdr_error" =>
        /\ ~g_connected /\ NoTransport
        /\ g_last_reconnect_time = now

\* The connection was lost later than the previous failure or disconnect.
C8_Witness == out.op = "hdr_error" /\ ~g_connected /\ now > 0

\* C9: with a conforming peer, whenever the connected session is about to
\* read a frame header, the read cursor stands at a frame boundary of the
\* peer's byte stream.
C9_HeaderReadsAtFrameBoundary ==
    (pc = "recv" /\ g_connected /\ wire.conforming) => Aligned

\* C10: after a failed or timed-out read of a metadata frame's remaining 16
\* bytes the session is disconnected.
C10_MetaRemainderFailureDisconnects ==
    out.op = "meta_fail" => ~g_connected

\* C11: a metadata frame received in full leaves the session connected and
\* changes nothing of the session record (rate, format, last data-frame
\* sequence, both decimators), of the circular buffer, its write index or the
\* new-sample counter, whatever sequence number and parameter values it carries.
C11_MetaFrameIsInformational ==
    [][out'.op = "meta_ok" =>
          /\ g_connected'
          /\ sess' = sess
          /\ g_iq_buffer' = g_iq_buffer
          /\ g_iq_buffer_idx' = g_iq_buffer_idx
          /\ g_new_samples' = g_new_samples]_vars

\* A metadata frame arrived in a session that has accepted data frames and
\* holds samples; its sequence number differs from the tracker's.
C11_Witness ==
    /\ out.op = "meta_ok" /\ g_connected
    /\ out.meta # << >> /\ out.meta[1].gain_reduction # 0
    /\ out.frame[1].sequence # g_last_sequence
    /\ g_last_sequence # 0 /\ g_new_samples > 0
    /\ g_decimator_i.factor = 2 /\ g_decimator_i.count = 1

\* C12: a frame header with a magic that is neither the data-frame nor the
\* metadata-frame magic is reported and nothing else: the session stays
\* connected on the same socket, and the session record, the circular buffer,
\* its write index, the new-sample counter and the gain state are unchanged.
C12_UnknownMagicIsNonFatal ==
    [][out'.op = "unknown" =>
          /\ g_connected' /\ g_socket' = g_socket
          /\ sess' = sess
          /\ g_iq_buffer' = g_iq_buffer
          /\ g_iq_buffer_idx' = g_iq_buffer_idx
          /\ g_new_samples' = g_new_samples
          /\ g_peak_db' = g_peak_db
          /\ g_floor_db' = g_floor_db
          /\ g_gain_offset' = g_gain_offset]_vars

\* An unknown frame was reported in a session that holds samples.
C12_Witness ==
    /\ out.op = "unknown" /\ g_connected
    /\ out.frame[1].magic = MAGIC_OTHER
    /\ g_last_sequence # 0 /\ g_new_samples > 0

\* C13: while disconnected, a connection attempt started by the reconnect
\* timer or by a pending discovery event starts no less than
\* RECONNECT_INTERVAL_MS after the most recent connection failure or
\* disconnect (out.since is the time since then, when there was one).
C13_ReconnectGateIsMandatory ==
    (out.by \in {"timer", "discovery"} /\ out.op # "conn_noop" /\ out.since # << >>) =>
        out.since[1] >= RECONNECT_INTERVAL_MS

ConnectAttempted ==
    out.op \in {"conn_tcp_fail", "conn_hdr_fail", "conn_bad_magic", "conn_ok"}

\* C14: from every state in which the session is disconnected with a known
\* target (discovery enabled or a non-empty host), for as long as the user
\* does not quit, the main loop keeps running and time advances, a
\* connection attempt is eventually made.
C14_RetryIsLive ==
    (~g_connected /\ (g_discovery_enabled \/ g_relay_host # EmptyHost))
        ~> (ConnectAttempted \/ ~ui.running)

\* An attempt made by the retry timer after the user disconnected, and one
\* made after an earlier attempt failed at the header.
C14_Witness ==
    /\ ConnectAttempted /\ out.by = "timer"
    /\ out.since # << >> /\ out.since[1] >= RECONNECT_INTERVAL_MS
    /\ ~g_discovery_enabled

\* The targets one discovery event, or the configuration, can give.
Targets ==
    {<<DEFAULT_RELAY_HOST, DEFAULT_RELAY_PORT>>}
        \cup {<<svc.ip, svc.port>> : svc \in DiscoveryServices}

\* C15: under every interleaving of the discovery thread and the main loop,
\* once the main loop has adopted a discovered endpoint, g_relay_host and
\* g_relay_port are the address and the port of one and the same discovery
\* event: never the address of one event with the port of another, never an
\* address of which only a part was written.
C15_HandoffAdoptsOneEvent ==
    pc \notin {"adopt_host_back", "adopt_port"} => <<g_relay_host, g_relay_port>> \in Targets

KnownFormats == {SAMPLE_FORMAT_S16, SAMPLE_FORMAT_F32, SAMPLE_FORMAT_U8}

\* C16: when the session's sample format is not one of the three known
\* codes, a data frame is dropped: nothing of it reaches the circular
\* buffer, its write index or the new-sample counter.
C16_UnknownFormatDropsFrame ==
    [][(out'.op = "data_ok" /\ g_sample_format \notin KnownFormats) =>
          /\ g_iq_buffer' = g_iq_buffer
          /\ g_iq_buffer_idx' = g_iq_buffer_idx
          /\ g_new_samples' = g_new_samples]_vars

\* A staging buffer whose growth failed: NULL with a non-zero recorded size.
BufferLost ==
    \/ g_raw_buffer.null /\ g_raw_buffer.size > 0
    \/ sample_buffer.null /\ sample_buffer.size > 0

\* C17: once growing the raw or the float staging buffer has failed, the
\* process has terminated: the main loop does not go on with a buffer that
\* was not allocated at its recorded size.
C17_AllocationFailureTerminates == BufferLost => Halted

\* C18: with a peer of the 16-byte-header variant announcing the display
\* rate, the session that has just connected holds that rate, applies no
\* decimation, reads float32 pairs (4 bytes per component), and its read
\* cursor stands at the start of the peer's first data frame, so that the
\* frame is read and ingested whole.
C18_VariantBAccepted ==
    (out.op = "conn_ok" /\ wire.peer = "B") =>
        /\ g_sample_rate = DISPLAY_SAMPLE_RATE
        /\ g_decimator_i.factor = 1
        /\ g_sample_format = SAMPLE_FORMAT_F32
        /\ Aligned

\* C19: the write index stays within the buffer; a data frame that is
\* ingested stores its k decimated samples at the k slots from the write
\* index on, advances the index by k modulo the buffer length and the
\* new-sample counter by k; no other step (connect, disconnect, resize,
\* metadata frame, unknown frame, timeout, analysis) moves the index or
\* writes the buffer, and the counter otherwise changes only when an
\* analysis resets it.
C19_WriteIndexAdvancesModulo ==
    [][/\ g_iq_buffer_idx' \in 0 .. DISPLAY_FFT_SIZE - 1
       /\ out'.op = "data_ok" =>
             LET k == g_new_samples' - g_new_samples
                 slots == {(g_iq_buffer_idx + j) % DISPLAY_FFT_SIZE : j \in 0 .. k - 1}
             IN  /\ k >= 0
                 /\ g_iq_buffer_idx' = (g_iq_buffer_idx + k) % DISPLAY_FFT_SIZE
                 /\ \A s \in 0 .. DISPLAY_FFT_SIZE - 1 :
                       s \notin slots => g_iq_buffer'[s] = g_iq_buffer[s]
       /\ out'.op # "data_ok" =>
             /\ g_iq_buffer_idx' = g_iq_buffer_idx
             /\ g_iq_buffer' = g_iq_buffer
             /\ \/ g_new_samples' = g_new_samples
                \/ out'.op = "analysis" /\ g_new_samples' = 0]_vars

\* A frame's samples were stored across the end of the buffer: the index
\* wrapped to the front, in a session that is not the first.
C19_Witness ==
    /\ out.op = "data_ok" /\ out.frame[1].num_samples = MaxSamples
    /\ g_iq_buffer_idx = 0 /\ g_iq_written = 0 .. DISPLAY_FFT_SIZE - 1
    /\ g_decimator_i.factor = 1 /\ sess.stamped

\* C20: every slot an analysis reads (it reads all DISPLAY_FFT_SIZE of
\* them) holds a sample ingestion wrote before that analysis.
C20_AnalysisReadsWrittenSamples ==
    out.op = "analysis" => g_iq_written = 0 .. DISPLAY_FFT_SIZE - 1

\* C21: within one loop iteration got_samples carries the outcome of the
\* read to the analysis.  It is set exactly when a data frame was ingested
\* in full and the new-sample counter then is at least DISPLAY_OVERLAP; an
\* analysis is produced exactly when it is set, and resets the counter; so
\* the counter is below DISPLAY_OVERLAP whenever an iteration starts.
C21_AnalysisIffHalfWindow ==
    [][/\ (pc = "recv" /\ pc' = "render") =>
             (got_samples' <=> (out'.op = "data_ok" /\ g_new_samples' >= DISPLAY_OVERLAP))
       /\ (pc = "render" /\ pc' = "render") => got_samples' = got_samples
       /\ (pc = "render" /\ pc' # "render") =>
             /\ (out'.op = "analysis") <=> got_samples
             /\ got_samples => g_new_samples' = 0
       /\ out'.op = "analysis" => pc = "render"
       /\ pc' = "discover" => g_new_samples' < DISPLAY_OVERLAP]_vars

\* An analysis was produced from a window half of which is new.
C21_Witness ==
    /\ out.op = "analysis" /\ g_new_samples = 0
    /\ g_iq_buffer_idx = DISPLAY_OVERLAP /\ pc = "discover"

\* C22: the canvas is a scroll buffer with row 0 newest: of the rows drawn
\* since the canvas was allocated, the one drawn j rows before the latest is
\* canvas row j, in every column, for every j below the number of rows drawn
\* and below the height.
C22_CanvasIsScrollBuffer ==
    g_pixels # NullPixels =>
        \A j \in 1 .. Len(g_rows) : g_pixels[j - 1] = g_rows[j]

\* C23: whenever an analysis is about to write its magnitudes and push a
\* row, whatever resize events and allocation failures came before, the
\* pixel buffer exists and has g_window_height rows of g_window_width
\* pixels, and the magnitude buffer exists and has g_window_width entries.
C23_BuffersMatchWindow ==
    (pc = "render" /\ got_samples) =>
        /\ g_pixels # NullPixels
        /\ DOMAIN g_pixels = 0 .. g_window_height - 1
        /\ \A y \in DOMAIN g_pixels : DOMAIN g_pixels[y] = 0 .. g_window_width - 1
        /\ ~g_magnitudes.null
        /\ g_magnitudes.size = g_window_width

\* C24: a spectral frame moves g_peak_db toward the frame maximum by
\* AGC_ATTACK of their distance when the maximum lies above it and by
\* AGC_DECAY of it otherwise, and g_floor_db toward the frame minimum by
\* AGC_ATTACK of their distance when the minimum lies below it and by
\* AGC_DECAY otherwise (to within the model's resolution of 0.001 dB);
\* neither estimate passes the extreme it follows.
C24_AttackDecayTracking ==
    [][out'.op = "analysis" =>
          LET mx == FrameMax(out'.spectrum[1])
              mn == FrameMin(out'.spectrum[1])
              pr == IF mx > g_peak_db THEN AGC_ATTACK ELSE AGC_DECAY
              fr == IF mn < g_floor_db THEN AGC_ATTACK ELSE AGC_DECAY
              dp == 1000 * (g_peak_db' - g_peak_db)
              df == 1000 * (g_floor_db' - g_floor_db)
          IN  /\ dp <= pr * (mx - g_peak_db) /\ dp > pr * (mx - g_peak_db) - 1000
              /\ df <= fr * (mn - g_floor_db) /\ df > fr * (mn - g_floor_db) - 1000
              /\ (mx >= g_peak_db) => (g_peak_db' >= g_peak_db /\ g_peak_db' <= mx)
              /\ (mx <= g_peak_db) => (g_peak_db' <= g_peak_db /\ g_peak_db' >= mx)
              /\ (mn >= g_floor_db) => (g_floor_db' >= g_floor_db /\ g_floor_db' <= mn)
              /\ (mn <= g_floor_db) => (g_floor_db' <= g_floor_db /\ g_floor_db' >= mn)]_vars

\* A frame has moved both estimates, the peak estimate down at the decay
\* rate and the floor estimate down at the attack rate, and neither has
\* arrived.
C24_Witness ==
    /\ out.op = "analysis"
    /\ g_peak_db < TARGET_PEAK_DB + GainOffsetStart /\ g_peak_db > FrameMax(out.spectrum[1])
    /\ g_floor_db < TARGET_FLOOR_DB + GainOffsetStart /\ g_floor_db > FrameMin(out.spectrum[1])

Dist(a, b) == IF a >= b THEN a - b ELSE b - a
\* The model's decibel values are whole thousandths: an estimate nearer to
\* its target than this may stand still at the decay rate.
GainResolution == 1000 \div AGC_DECAY

\* C25: with frames whose maximum is -20 dB and whose minimum is -70 dB,
\* every update brings g_peak_db nearer to -20 dB and g_floor_db nearer to
\* -70 dB by at least AGC_DECAY of the distance there was (in whole
\* thousandths of a dB): the distances never grow, and shrink geometrically,
\* so that any tolerance is met after a bounded number of updates.
C25_GainConverges ==
    [][(/\ out'.op = "analysis"
        /\ FrameMax(out'.spectrum[1]) = TARGET_PEAK_DB
        /\ FrameMin(out'.spectrum[1]) = TARGET_FLOOR_DB) =>
          LET dp == Dist(g_peak_db, TARGET_PEAK_DB)
              df == Dist(g_floor_db, TARGET_FLOOR_DB)
          IN  /\ Dist(g_peak_db', TARGET_PEAK_DB) <= dp - (AGC_DECAY * dp) \div 1000
              /\ Dist(g_floor_db', TARGET_FLOOR_DB) <= df - (AGC_DECAY * df) \div 1000]_vars

\* Both estimates have come as near to their targets as the model resolves,
\* from starting values further away.
C25_Witness ==
    /\ out.op = "analysis"
    /\ GainOffsetStart > GainResolution
    /\ Dist(g_peak_db, TARGET_PEAK_DB) < GainResolution
    /\ Dist(g_floor_db, TARGET_FLOOR_DB) < GainResolution

\* C26: a step that connects, fails to connect (refused, header not read,
\* header rejected) or disconnects (stream lost, payload lost, the user's
\* click) leaves g_peak_db, g_floor_db and g_gain_offset as they were, and
\* g_peak_db and g_floor_db change in no step but a spectral frame's.
C26_GainSurvivesReconnect ==
    [][/\ out'.op \in {"conn_ok", "conn_tcp_fail", "conn_hdr_fail", "conn_bad_magic",
                       "user_disconnect", "hdr_error", "data_fail"} =>
             /\ g_peak_db' = g_peak_db
             /\ g_floor_db' = g_floor_db
             /\ g_gain_offset' = g_gain_offset
       /\ (g_peak_db' # g_peak_db \/ g_floor_db' # g_floor_db) =>
             out'.op = "analysis"]_vars

\* A session was entered with a peak estimate that earlier frames had moved
\* and a gain offset the user had set, after an earlier session had ended.
C26_Witness ==
    /\ out.op = "conn_ok" /\ g_connected /\ sess.stamped
    /\ g_peak_db # PEAK_DB_INIT
    /\ g_gain_offset # 0

\* Every pixel of the status square has the given colour.
StatusShows(colour) ==
    \A p \in StatusSquare(g_window_width, g_window_height) : g_pixels[p[2]][p[1]] = colour

\* C27: whenever the canvas is presented, with or without a new row, its
\* status square is green if the session is connected and red if it is not.
C27_IndicatorShowsConnectionState ==
    (out.op \in {"analysis", "present"} /\ g_pixels # NullPixels) =>
        StatusShows(IF g_connected THEN Green ELSE Red)

\* C28: the two decimators of a session hold the same factor and the same
\* count of consumed inputs after every step, and a data frame of n pairs
\* read with c inputs carried over from earlier frames ingests k pairs and
\* carries c' inputs on, with k * factor + c' = c + n and c' < factor, on
\* both channels; the write index advances by k.
C28_DecimatorsInLockStep ==
    [][/\ sess'.dec_i.factor = sess'.dec_q.factor
       /\ sess'.dec_i.count = sess'.dec_q.count
       /\ out'.op = "data_ok" =>
             LET n == out'.frame[1].num_samples
                 k == g_new_samples' - g_new_samples
             IN  /\ g_decimator_i.factor >= 1
                 /\ k * g_decimator_i.factor + sess'.dec_i.count = g_decimator_i.count + n
                 /\ k * g_decimator_q.factor + sess'.dec_q.count = g_decimator_q.count + n
                 /\ sess'.dec_i.count < g_decimator_i.factor
                 /\ sess'.dec_q.count < g_decimator_q.factor
                 /\ g_iq_buffer_idx' = (g_iq_buffer_idx + k) % DISPLAY_FFT_SIZE]_vars

\* A frame of one pair completed an output pair at decimation factor 2: the
\* other input pair of it came with an earlier frame.
C28_Witness ==
    /\ out.op = "data_ok" /\ out.frame[1].num_samples = 1
    /\ g_decimator_i.factor = 2
    /\ g_decimator_i.count = 0 /\ g_decimator_q.count = 0
    /\ g_new_samples >= 1

\* C29: in a session whose negotiated sample rate is at least the display
\* rate, the sample rate divided by the decimation factor is the display
\* rate: sample_rate = factor * DISPLAY_SAMPLE_RATE.
C29_DecimatedRateIsDisplayRate ==
    (g_connected /\ g_sample_rate >= DISPLAY_SAMPLE_RATE) =>
        g_sample_rate = g_decimator_i.factor * DISPLAY_SAMPLE_RATE

\* The endpoints the discovery collaborator announces.
DiscoveredEndpoints == {<<svc.ip, svc.port>> : svc \in DiscoveryServices}

\* C30: when the program was started with --no-auto, every connection
\* attempt to a discovered endpoint is one the user asked for with Connect.
C30_NoAutoConnectsOnlyOnRequest ==
    (~g_auto_connect /\ ConnectAttempted
        /\ <<g_relay_host, g_relay_port>> \in DiscoveredEndpoints) =>
        out.by = "user"

\* C31: when the process has left the main loop and run its cleanup, the
\* session is disconnected, g_socket is SOCKET_INVALID, no descriptor is
\* open, and no discovery listener is running.
C31_ShutdownReleasesEverything ==
    pc = "done" => (~g_connected /\ NoTransport /\ cb = CbOff)

\* The user quit while a session was streaming data and the discovery thread
\* was listening.
C31_Witness ==
    /\ pc = "done" /\ out.op = "shutdown" /\ out.prev # << >>
    /\ g_discovery_enabled /\ NoTransport

\* C32: a connect that succeeds leaves both decimators freshly initialised
\* (no input counted, nothing accumulated) with the factor
\* max(1, floor(sample_rate / DISPLAY_SAMPLE_RATE)) of the header's rate;
\* and at every moment both decimators hold the same factor and the same
\* count.
C32_FactorFromHeaderRate ==
    [][/\ sess'.dec_i.factor = sess'.dec_q.factor
       /\ sess'.dec_i.count = sess'.dec_q.count
       /\ out'.op = "conn_ok" =>
             LET rate == out'.header[1].sample_rate
                 F == sess'.dec_i.factor
                 fresh == [factor |-> F, count |-> 0, acc |-> 0]
             IN  /\ F >= 1
                 /\ rate < DISPLAY_SAMPLE_RATE => F = 1
                 /\ rate >= DISPLAY_SAMPLE_RATE =>
                       /\ F * DISPLAY_SAMPLE_RATE <= rate
                       /\ rate - F * DISPLAY_SAMPLE_RATE < DISPLAY_SAMPLE_RATE
                 /\ sess'.dec_i = fresh /\ sess'.dec_q = fresh]_vars

\* A session with a header rate of 0 was entered after an earlier session
\* or attempt had ended.
C32_Witness ==
    /\ out.op = "conn_ok" /\ sess.stamped
    /\ g_sample_rate = 0
    /\ g_decimator_i.factor = 1 /\ g_decimator_q.factor = 1

\* C33: at an analysis of a buffer that has been filled, FFT input position
\* i holds the windowed sample of the slot that was stored i-th of the last
\* DISPLAY_FFT_SIZE stores: position 0 the oldest retained sample, position
\* DISPLAY_FFT_SIZE - 1 the one ingested last.
C33_WindowRunsOldestToNewest ==
    (out.op = "analysis" /\ Len(g_iq_order) = DISPLAY_FFT_SIZE) =>
        \A i \in 0 .. DISPLAY_FFT_SIZE - 1 :
            /\ out.window[1][i].slot = g_iq_order[i + 1]
            /\ out.window[1][i].r = <<g_iq_buffer[g_iq_order[i + 1]].i, i>>
            /\ out.window[1][i].i = <<g_iq_buffer[g_iq_order[i + 1]].q, i>>

\* An analysis of a filled buffer whose write index stands at an odd slot.
C33_Witness ==
    /\ out.op = "analysis" /\ Len(g_iq_order) = DISPLAY_FFT_SIZE
    /\ g_iq_buffer_idx % 2 = 1
    /\ out.window[1][0].slot = g_iq_buffer_idx

\* round(num / den), halves away from zero: the integer nearest to the
\* fraction.
Round(num, den) ==
    CHOOSE k \in (0 - 2 * DISPLAY_FFT_SIZE) .. (2 * DISPLAY_FFT_SIZE) :
        /\ 2 * Dist(num, k * den) <= den
        /\ (2 * Dist(num, k * den) = den => Dist(0, k * den) > Dist(0, num))

C35_PayloadBytesExact ==
    [][(out'.op \in {"data_ok", "crash"} /\ out'.frame # << >>) =>
          LET n == out'.frame[1].num_samples
              bytes == n * 2 * (IF g_sample_format = SAMPLE_FORMAT_S16 THEN 2
                                ELSE IF g_sample_format = SAMPLE_FORMAT_F32 THEN 4 ELSE 1)
          IN  /\ out'.rcv[1].got = bytes
              /\ g_raw_buffer'.size >= bytes
              /\ sample_buffer'.size >= n * 2 * 4]_vars

\* C36: a step is an analysis exactly when it moves a gain estimate or
\* pushes a row; an analysis updates the estimates once (C24) and pushes one
\* row, whose colours are those of the frame under the estimates as the frame
\* has left them, onto the top of the canvas, every earlier row moving down
\* by one (the status square apart).
C36_OneUpdateThenOneRow ==
    [][/\ (g_peak_db' # g_peak_db \/ g_floor_db' # g_floor_db
              \/ (g_rows' # g_rows /\ g_rows' # << >>)) => out'.op = "analysis"
       /\ out'.op = "analysis" =>
             LET frame == out'.spectrum[1]
                 row == [x \in DOMAIN frame |->
                            magnitude_to_rgb(frame[x], g_peak_db', g_floor_db',
                                             g_gain_offset)]
                 square == StatusSquare(g_window_width, g_window_height)
             IN  /\ Len(g_rows') = (IF Len(g_rows) < g_window_height
                                    THEN Len(g_rows) + 1 ELSE g_window_height)
                 /\ g_rows'[1] = row
                 /\ \A j \in 2 .. Len(g_rows') : g_rows'[j] = g_rows[j - 1]
                 /\ \A x \in 0 .. g_window_width - 1 :
                       /\ <<x, 0>> \notin square => g_pixels'[0][x] = row[x]
                       /\ \A y \in 1 .. g_window_height - 1 :
                             <<x, y>> \notin square => g_pixels'[y][x] = g_pixels[y - 1][x]]_vars

\* The same spectral frame has been drawn twice, and the two rows differ: the
\* second was coloured under the estimates the second frame had moved.
C36_Witness ==
    /\ out.op = "analysis" /\ Len(g_rows) >= 2
    /\ g_rows[1] # g_rows[2]
    /\ g_peak_db # PEAK_DB_INIT

\* C37: every analysis is made when exactly DISPLAY_OVERLAP samples have
\* been ingested since the one before (so that its window shares the other
\* DISPLAY_FFT_SIZE - DISPLAY_OVERLAP samples with the window before, and no
\* sample is overwritten before a window has held it).
C37_WindowsOverlapByHalf ==
    [][out'.op = "analysis" => g_new_samples = DISPLAY_OVERLAP]_vars

\* C38: at most one descriptor is open at any time, and it is g_socket of a
\* connected session; a connect_to_relay call on a connected session
\* returns true, leaves every field of the session as it was (socket, open
\* descriptors, rate, format, last sequence, decimators, retry timestamp),
\* reads no header and leaves the read cursor where it stood.
C38_ConnectWhileConnectedIsNoOp ==
    [][/\ Cardinality(sess'.open) <= 1
       /\ g_connected' => sess'.open = {sess'.socket}
       /\ (g_connected /\ out'.op \in {"conn_noop", "conn_tcp_fail", "conn_hdr_fail",
                                         "conn_bad_magic", "conn_ok"}) =>
             /\ out'.op = "conn_noop"
             /\ out'.ret = <<TRUE>>
             /\ sess' = sess
             /\ wire' = wire
             /\ out'.rcv = << >> /\ out'.header = << >>]_vars

\* connect_to_relay was called on a session that had taken data, its
\* decimators half-way to an output, while the network would have delivered
\* the header of a stream at another rate.
C38_Witness ==
    /\ out.op = "conn_noop" /\ out.by = "call" /\ g_connected
    /\ g_last_sequence # 0
    /\ g_decimator_i.count = 1
    /\ g_sample_rate = 2 * DISPLAY_SAMPLE_RATE

\* C39: a successful connect leaves the last sequence at 0 whatever the
\* session before left there, and the first data frame of a session (none
\* accepted since the connect) reports no gap, whatever its sequence.
C39_SequenceStartsAfreshPerSession ==
    [][/\ out'.op = "conn_ok" => g_last_sequence' = 0
       /\ (out'.op \in {"data_ok", "data_fail", "crash"} /\ out'.prev = << >>) =>
             out'.gaps = << >>]_vars

\* The first data frame of a session came with a sequence that follows
\* neither 0 nor a frame numbered 0, and with no samples, while the sample
\* buffer holds samples: an earlier session had accepted data frames.
C39_Witness ==
    /\ out.op = "data_ok" /\ out.prev = << >> /\ out.gaps = << >>
    /\ out.frame[1].sequence >= 2
    /\ out.frame[1].num_samples = 0
    /\ g_iq_order # << >>

\* C40: a frame whose events hold one click on the Connect button, no press
\* being held from an earlier frame, toggles the connection once: it is a
\* user's disconnect of a connected session or a user's connect attempt of
\* a disconnected one, whatever other events the batch holds.
C40_OneClickTogglesOnce ==
    [][(~ui.btn_pressed /\ out'.clicks = 1) =>
          IF g_connected THEN out'.op = "user_disconnect"
          ELSE out'.by = "user" /\ out'.op \in {"conn_tcp_fail", "conn_hdr_fail",
                                                  "conn_bad_magic", "conn_ok"}]_vars

TypeOK ==
    /\ sess.connected \in BOOLEAN
    /\ g_iq_buffer_idx \in 0 .. DISPLAY_FFT_SIZE - 1
    /\ pc \in {"discover", "adopt_host", "adopt_host_back", "adopt_port", "reconnect",
              "events", "recv", "render", "done", "crashed"}

====
